---- MODULE Spec2Model ----
(***************************************************************************)
(* A model of just-latex: the Path Deduplication Optimizer (svgopt.rs) and *)
(* the fragment renderer / region resolver (main.rs).                      *)
(*                                                                         *)
(* Lengths of the vector document are integers counted in eighths of a     *)
(* user unit, so every value is an exactly representable binary fraction   *)
(* and the 3-decimal formatting of a difference is exact (1/8 = 0.125).    *)
(* Text (ids, formatted numbers) is a sequence of one-character strings.   *)
(***************************************************************************)
EXTENDS Integers, Sequences, FiniteSets, TLC

VARIABLES
    \* ---- optimize(tree, eps), svgopt.rs ----
    tree,        \* the usvg tree: [events, paths]; path ids get prefixed in place
    eps,         \* config.optimizer.eps, in eighths
    path_tree,   \* the PathTree index: node (fingerprint prefix) -> paths
    states,      \* Vec<(State, PathFingerprint)>
    total,       \* number of leaf paths classified so far
    count,       \* number of paths found similar
    opc,         \* position in optimize: "classify", "done" ("idle": not running)
    out,         \* the bytes written by the quick_xml writer, as events
    pass,        \* 1: first run; 2: run over the re-read output of the first
                 \* (over svgs: the number of the page being optimized)
    first,       \* what the first run produced (kept for the second)
    svgs,        \* the parsed pages main hands to optimize, one after the other
    \* ---- main / FragmentRenderer::render_with_latex, main.rs ----
    rpc,         \* position in main: "init", "start", "walked", "typeset", "resolve",
                 \* "returned", "written", "failed"
    doc,         \* the document read from stdin: its math / raw tex nodes
    shapeOk,     \* whether the walk finds every node well shaped
    optEnabled,  \* config.optimizer.enabled
    nodes,       \* the tree's nodes as they are now, the final node last
    fragments,   \* self.fragments
    lines,       \* the line range of every fragment
    numPages,    \* svgs.len()
    cur,         \* index of the fragment the resolve loop is at
    line,        \* the next line of its range to query
    seen_boxes,  \* the render's seen-set
    regions,     \* BTreeMap<u32, Region> of the current fragment
    optimized,   \* pages optimized so far
    err,         \* the error main returns
    stdout,      \* what has been written to the standard output
    config,      \* the configuration Config::load deserialises
    bboxes,      \* per page: the view box top and the bounding boxes of the leaves
    folds,       \* history: the boxes folded so far, in order, each with its fragment
    \* ---- x_range_for_y_range, refine_y_range and the descriptor, main.rs ----
    gpc,         \* "input": arguments drawn; "done": a function applied ("idle")
    gin,         \* the arguments
    gout         \* the function applied and what it returned

optVars == <<tree, eps, path_tree, states, total, count, opc, out, pass, first, svgs>>

renderVars == <<rpc, doc, shapeOk, optEnabled, nodes, fragments, lines, numPages, cur,
                line, seen_boxes, regions, optimized, err, stdout, config, bboxes, folds>>

geomVars == <<gpc, gin, gout>>

vars == <<tree, eps, path_tree, states, total, count, opc, out, pass, first, svgs,
          rpc, doc, shapeOk, optEnabled, nodes, fragments, lines, numPages, cur,
          line, seen_boxes, regions, optimized, err, stdout, config, bboxes, folds,
          gpc, gin, gout>>

----------------------------------------------------------------------------
(* Bounds *)

MaxPaths == 3      \* leaf paths per document
MaxNodes == 2      \* math / raw tex nodes per document
MaxBoxes == 3      \* boxes folded for one fragment, the functions looked at alone
MaxBboxes == 2     \* bounding boxes of a page, the functions looked at alone

\* the values of config.optimizer.eps tried, in eighths of a unit
EpsValues == {1, 2}

----------------------------------------------------------------------------
(* Text helpers *)

Digit(n) == CASE n = 0 -> "0" [] n = 1 -> "1" [] n = 2 -> "2" [] n = 3 -> "3"
              [] n = 4 -> "4" [] n = 5 -> "5" [] n = 6 -> "6" [] n = 7 -> "7"
              [] n = 8 -> "8" [] n = 9 -> "9"

DigitChars == {"0", "1", "2", "3", "4", "5", "6", "7", "8", "9"}

DigitVal(c) == CHOOSE n \in 0..9 : Digit(n) = c

RECURSIVE FormatUsize(_)
\* format!("{}", id) for a usize
FormatUsize(n) == IF n < 10 THEN <<Digit(n)>>
                  ELSE Append(FormatUsize(n \div 10), Digit(n % 10))

RECURSIVE ParseUsizeFrom(_, _)
ParseUsizeFrom(s, acc) ==
    IF s = <<>> THEN acc ELSE ParseUsizeFrom(Tail(s), acc * 10 + DigitVal(Head(s)))

\* str::parse::<usize>: -1 stands for Err (empty or a non-digit character)
ParseUsize(s) ==
    IF s = <<>> \/ \E i \in 1..Len(s) : s[i] \notin DigitChars THEN -1
    ELSE ParseUsizeFrom(s, 0)

\* str::find(delim): the position of the first delimiter (0: None)
FindDelim(s, d) ==
    IF \E i \in 1..Len(s) : s[i] = d
    THEN CHOOSE i \in 1..Len(s) : s[i] = d /\ \A j \in 1..(i - 1) : s[j] # d
    ELSE 0

delim == "|"

Abs(n) == IF n < 0 THEN -n ELSE n

\* format!("{:.3}", v) of v = d/8: d * 125 thousandths, exactly
Format3(d) ==
    LET th == Abs(d) * 125
        fr == th % 1000
    IN  (IF d < 0 THEN <<"-">> ELSE <<>>)
        \o FormatUsize(th \div 1000) \o <<".">>
        \o <<Digit(fr \div 100), Digit((fr \div 10) % 10), Digit(fr % 10)>>

----------------------------------------------------------------------------
(* Paths, fingerprints *)

NoFill == [some |-> FALSE, paint |-> "", opacity |-> 0, rule |-> ""]
Fill(c) == [some |-> TRUE, paint |-> c, opacity |-> 1, rule |-> "nonzero"]

NoDash == [some |-> FALSE, v |-> <<>>]
NoStroke == [some |-> FALSE, paint |-> "", opacity |-> 0, dashoffset |-> 0,
             dasharray |-> NoDash, linecap |-> "", linejoin |-> "", miterlimit |-> 0]

Seg(c, pts) == [cmd |-> c, pts |-> pts]

Command(c) == [t |-> c, x |-> 0]
Coord(x) == [t |-> "Coord", x |-> x]

\* usvg Transform::apply; the model's transforms are translations
Apply(tr, pt) == <<pt[1] + tr[1], pt[2] + tr[2]>>

RECURSIVE FingerprintFrom(_, _, _, _)
FingerprintFrom(segs, tr, shift, elems) ==
    IF segs = <<>> THEN [elems |-> elems, shift |-> shift]
    ELSE LET s == Head(segs)
             r == [i \in 1..Len(s.pts) |-> Apply(tr, s.pts[i])]
             \* shift.get_or_insert((x, y)): the segment's end point
             sh == IF shift = <<>> /\ Len(r) > 0 THEN r[Len(r)] ELSE shift
             co == [i \in 1..(2 * Len(r)) |->
                      Coord(r[(i + 1) \div 2][IF i % 2 = 1 THEN 1 ELSE 2]
                            - sh[IF i % 2 = 1 THEN 1 ELSE 2])]
         IN  FingerprintFrom(Tail(segs), tr, sh, (elems \o <<Command(s.cmd)>>) \o co)

\* PathFingerprint::new
PathFingerprintNew(p) == FingerprintFrom(p.data, p.transform, <<>>, <<>>)

----------------------------------------------------------------------------
(* PathTree: a node is named by the fingerprint prefix that leads to it *)

EmptyPathTree == [n \in {<<>>} |-> <<>>]

RECURSIVE SortedKeys(_)
\* ascending order of a BTreeMap range
SortedKeys(S) ==
    IF S = {} THEN <<>>
    ELSE LET m == CHOOSE x \in S : \A y \in S : x <= y
         IN  <<m>> \o SortedKeys(S \ {m})

RECURSIVE FindSimilarDfs(_, _, _)
FindSimilarDfs(pt, q, e) ==
    IF q = <<>> THEN <<>>
    ELSE LET top == q[Len(q)]
             rq == SubSeq(q, 1, Len(q) - 1)
         IN  IF top.rest = <<>> THEN pt[top.node]
             ELSE LET f == Head(top.rest)
                      nx(el) == [node |-> Append(top.node, el), rest |-> Tail(top.rest)]
                  IN  IF f.t # "Coord"
                      THEN IF Append(top.node, f) \in DOMAIN pt
                           THEN FindSimilarDfs(pt, Append(rq, nx(f)), e)
                           ELSE FindSimilarDfs(pt, rq, e)
                      ELSE LET ks == SortedKeys({x \in (f.x - e)..(f.x + e) :
                                          Append(top.node, Coord(x)) \in DOMAIN pt})
                           IN  FindSimilarDfs(pt,
                                   rq \o [i \in 1..Len(ks) |-> nx(Coord(ks[i]))], e)

\* a lookup whose coordinate range is one unit too wide
find_similar_wider(pt, fingerprint, e) ==
    FindSimilarDfs(pt, <<[node |-> <<>>, rest |-> fingerprint.elems]>>, e + 1)

\* PathTree::find_similar: the DFS returns the paths of the first node it pops
\* with the fingerprint exhausted
find_similar(pt, fingerprint, e) ==
    FindSimilarDfs(pt, <<[node |-> <<>>, rest |-> fingerprint.elems]>>, e)

\* an insertion that overwrites the paths of the leaf it reaches
insert_replacing(pt, fingerprint, path) ==
    LET el == fingerprint.elems
        dom == DOMAIN pt \cup {SubSeq(el, 1, k) : k \in 0..Len(el)}
        old(n) == IF n \in DOMAIN pt THEN pt[n] ELSE <<>>
    IN  [n \in dom |-> IF n = el THEN <<path>> ELSE old(n)]

\* PathTree::insert / insert_slice
insert(pt, fingerprint, path) ==
    LET el == fingerprint.elems
        dom == DOMAIN pt \cup {SubSeq(el, 1, k) : k \in 0..Len(el)}
        old(n) == IF n \in DOMAIN pt THEN pt[n] ELSE <<>>
    IN  [n \in dom |-> IF n = el THEN Append(old(n), path) ELSE old(n)]

----------------------------------------------------------------------------
(* same_style *)

same_paint(a, b) == a = b

same_dasharray(a, b, e) ==
    IF a.some /\ b.some
    THEN \A i \in 1..(IF Len(a.v) < Len(b.v) THEN Len(a.v) ELSE Len(b.v)) :
             Abs(a.v[i] - b.v[i]) <= e
    ELSE ~a.some /\ ~b.some

same_stroke(a, b, e) ==
    IF a.some /\ b.some
    THEN /\ same_paint(a.paint, b.paint)
         /\ Abs(a.dashoffset - b.dashoffset) <= e
         /\ same_dasharray(a.dasharray, b.dasharray, e)
         /\ a.linecap = b.linecap
         /\ a.linejoin = b.linejoin
         /\ a.miterlimit = b.miterlimit
         /\ a.opacity = b.opacity
    ELSE ~a.some /\ ~b.some

\* a fill comparison that forgets the paint
same_fill_any_paint(a, b) ==
    IF a.some /\ b.some
    THEN a.opacity = b.opacity /\ a.rule = b.rule
    ELSE ~a.some /\ ~b.some

same_fill(a, b) ==
    IF a.some /\ b.some
    THEN same_paint(a.paint, b.paint) /\ a.opacity = b.opacity /\ a.rule = b.rule
    ELSE ~a.some /\ ~b.some

same_style(a, b, e) ==
    /\ same_stroke(a.stroke, b.stroke, e)
    /\ same_fill(a.fill, b.fill)
    /\ a.rendering_mode = b.rendering_mode
    /\ a.visibility = b.visibility

----------------------------------------------------------------------------
(* Documents: the usvg tree and its serialisation (tree.to_string) *)

Ev(ev, name, path, attrs) == [ev |-> ev, name |-> name, path |-> path, attrs |-> attrs]

\* the value of attribute key of an event (<<>>: absent)
Attr(e, key) ==
    IF \E i \in 1..Len(e.attrs) : e.attrs[i][1] = key
    THEN e.attrs[CHOOSE i \in 1..Len(e.attrs) : e.attrs[i][1] = key][2]
    ELSE <<>>

\* A leaf path of the pool: "M o,o L o+80,o+dy" (closed: followed by Z), filled c
MkPath(o, dy, c, closed) ==
    [id |-> <<>>,
     data |-> <<Seg("MoveTo", <<<<o, o>>>>), Seg("LineTo", <<<<o + 80, o + dy>>>>)>>
              \o (IF closed THEN <<Seg("ClosePath", <<>>)>> ELSE <<>>),
     transform |-> <<0, 0>>,
     fill |-> Fill(c), stroke |-> NoStroke,
     rendering_mode |-> "auto", visibility |-> "visible"]

Dys == {80, 81, 82}
Colours == {"black", "red"}

\* "M0,0 L10,dy/8" in each colour, "M5,5 L15,15", and a closed path
PathPool ==
    {MkPath(0, dy, c, FALSE) : dy \in Dys, c \in Colours}
    \cup {MkPath(40, 80, "black", FALSE), MkPath(0, 81, "black", TRUE)}

\* the id a path carries in the input (one of them holds the delimiter itself)
IdOf(i) == IF i = 2 THEN <<"a", "|", "b">> ELSE <<"p", Digit(i)>>

Layouts == {"flat", "group", "defs"}

PathEvs(lo, hi) == [i \in 1..(hi - lo + 1) |-> Ev("Empty", "path", lo + i - 1, <<>>)]

\* the element structure of a document of n leaf paths
Structure(layout, n) ==
    CASE layout = "flat" ->
            <<Ev("Start", "svg", 0, <<>>)>> \o PathEvs(1, n) \o <<Ev("End", "svg", 0, <<>>)>>
      [] layout = "group" ->
            <<Ev("Start", "svg", 0, <<>>), Ev("Start", "g", 0, <<>>)>> \o PathEvs(1, 1)
            \o <<Ev("End", "g", 0, <<>>)>> \o PathEvs(2, n) \o <<Ev("End", "svg", 0, <<>>)>>
      [] layout = "defs" ->
            <<Ev("Start", "svg", 0, <<>>), Ev("Start", "defs", 0, <<>>),
              Ev("Start", "clipPath", 0, <<>>)>> \o PathEvs(1, 1)
            \o <<Ev("End", "clipPath", 0, <<>>), Ev("End", "defs", 0, <<>>)>>
            \o PathEvs(2, n) \o <<Ev("End", "svg", 0, <<>>)>>

Trees ==
    {[events |-> Structure(l, Len(ps)),
      paths |-> [i \in 1..Len(ps) |-> [ps[i] EXCEPT !.id = IdOf(i)]]] :
        l \in Layouts, ps \in UNION {[1..n -> PathPool] : n \in 1..MaxPaths}}

NumPaths(t) == Len(t.paths)

\* tree.to_string(): every path element is written with its (prefixed) id
ToXml(t) ==
    [i \in 1..Len(t.events) |->
        IF t.events[i].name = "path"
        THEN [t.events[i] EXCEPT !.attrs = <<<<"id", t.paths[t.events[i].path].id>>>>]
        ELSE t.events[i]]

\* every element opened is closed by a matching end tag, properly nested
RECURSIVE Nested(_, _)
Nested(evs, stack) ==
    IF evs = <<>> THEN stack = <<>>
    ELSE LET e == Head(evs)
         IN  CASE e.ev = "Start" -> Nested(Tail(evs), Append(stack, e.name))
               [] e.ev = "End" ->
                    /\ stack # <<>>
                    /\ stack[Len(stack)] = e.name
                    /\ Nested(Tail(evs), SubSeq(stack, 1, Len(stack) - 1))
               [] OTHER -> Nested(Tail(evs), stack)

WellFormed(evs) == Nested(evs, <<>>)

----------------------------------------------------------------------------
(* optimize: the classification pass *)

St(st, ref, fp) == [st |-> st, ref |-> ref, fp |-> fp]

\* similar.id[..similar.id.find(delim).unwrap()].parse::<usize>()
IndexOfId(id) == ParseUsize(SubSeq(id, 1, FindDelim(id, delim) - 1))

\* format!("{}{}{}", id, delim, p.id)
PrefixedId(id, old) == (FormatUsize(id) \o <<delim>>) \o old

\* the path the loop is about to classify, its id prefixed with its index
CurrentPath == [tree.paths[total + 1] EXCEPT !.id = PrefixedId(total, @)]

\* .find(|s| same_style(s, p, eps)): positions of the style-equal candidates
StyleMatches(similar, p) == {i \in 1..Len(similar) : same_style(similar[i], p, eps)}

\* the iteration with the matched path left in the state it had
ClassifyWithoutPromotion ==
    /\ opc = "classify"
    /\ total < NumPaths(tree)
    /\ LET p == CurrentPath
           fingerprint == PathFingerprintNew(p)
           similar == find_similar(path_tree, fingerprint, eps)
           ms == StyleMatches(similar, p)
       IN  /\ tree' = [tree EXCEPT !.paths[total + 1] = p]
           /\ IF ms # {}
              THEN LET s == similar[CHOOSE i \in ms : \A j \in ms : i <= j]
                       p_id == IndexOfId(s.id)
                   IN  /\ states' = Append(states, St("Referring", p_id, fingerprint))
                       /\ count' = count + 1
                       /\ path_tree' = path_tree
              ELSE /\ path_tree' = insert(path_tree, fingerprint, p)
                   /\ states' = Append(states, St("Standalone", -1, fingerprint))
                   /\ count' = count
    /\ total' = total + 1
    /\ UNCHANGED <<eps, opc, out, pass, first, svgs>>
    /\ UNCHANGED renderVars
    /\ UNCHANGED geomVars

\* one iteration of `for mut node in tree.root().descendants()` on a leaf path
Classify ==
    /\ opc = "classify"
    /\ total < NumPaths(tree)
    /\ LET p == CurrentPath
           fingerprint == PathFingerprintNew(p)
           similar == find_similar(path_tree, fingerprint, eps)
           ms == StyleMatches(similar, p)
       IN  /\ tree' = [tree EXCEPT !.paths[total + 1] = p]
           /\ IF ms # {}
              THEN LET s == similar[CHOOSE i \in ms : \A j \in ms : i <= j]
                       p_id == IndexOfId(s.id)
                   IN  /\ states' = Append([states EXCEPT ![p_id + 1].st = "Referred"],
                                           St("Referring", p_id, fingerprint))
                       /\ count' = count + 1
                       /\ path_tree' = path_tree
              ELSE /\ path_tree' = insert(path_tree, fingerprint, p)
                   /\ states' = Append(states, St("Standalone", -1, fingerprint))
                   /\ count' = count
    /\ total' = total + 1
    /\ UNCHANGED <<eps, opc, out, pass, first, svgs>>
    /\ UNCHANGED renderVars
    /\ UNCHANGED geomVars

----------------------------------------------------------------------------
(* optimize: the rewrite pass over the serialised tree *)

format_def_id(id) == <<"j", "l">> \o FormatUsize(id)
format_use_id(id) == <<"#", "j", "l">> \o FormatUsize(id)

\* remove_id_prefix: the path element with its id attribute stripped of the prefix
remove_id_prefix(e) ==
    LET id_str == Attr(e, "id")
        delim_pos == FindDelim(id_str, delim)
    IN  [e EXCEPT !.attrs = [i \in 1..Len(e.attrs) |->
            IF e.attrs[i][1] = "id"
            THEN <<"id", SubSeq(id_str, delim_pos + 1, Len(id_str))>>
            ELSE e.attrs[i]]]

Use(x, y, href) == Ev("Empty", "use", 0, <<<<"x", x>>, <<"y", y>>, <<"href", href>>>>)

\* the translation with the operands swapped
ShiftDeltaReversed(fp, target_shift) ==
    <<Format3(target_shift[1] - fp.shift[1]), Format3(target_shift[2] - fp.shift[2])>>

\* the translation a Referring path is given: own shift origin - target's
ShiftDelta(fp, target_shift) ==
    <<Format3(fp.shift[1] - target_shift[1]), Format3(fp.shift[2] - target_shift[2])>>

\* a Referred path left where it stood instead of being replaced by a reference
WriteEmptyReferredInPlace(e, sts) ==
    IF e.name = "path"
    THEN LET id == IndexOfId(Attr(e, "id"))
             s == sts[id + 1]
         IN  CASE s.st = "Standalone" -> remove_id_prefix(e)
               [] s.st = "Referring" ->
                    LET shift == ShiftDelta(s.fp, sts[s.ref + 1].fp.shift)
                    IN  Use(shift[1], shift[2], format_use_id(s.ref))
               [] s.st = "Referred" -> remove_id_prefix(e)
    ELSE e

\* what is written for Event::Empty(e)
WriteEmpty(e, sts) ==
    IF e.name = "path"
    THEN LET id == IndexOfId(Attr(e, "id"))
             s == sts[id + 1]
         IN  CASE s.st = "Standalone" -> remove_id_prefix(e)
               [] s.st = "Referring" ->
                    LET shift == ShiftDelta(s.fp, sts[s.ref + 1].fp.shift)
                    IN  Use(shift[1], shift[2], format_use_id(s.ref))
               [] s.st = "Referred" -> Use(<<"0">>, <<"0">>, format_use_id(id))
    ELSE e

\* the <defs> block written when </svg> is read
DefsBlock(defs) ==
    LET one(d) == <<Ev("Start", "g", 0, <<<<"id", format_def_id(d[1])>>>>),
                    d[2], Ev("End", "g", 0, <<>>)>>
        F[i \in 0..Len(defs)] == IF i = 0 THEN <<>> ELSE F[i - 1] \o one(defs[i])
    IN  (<<Ev("Start", "defs", 0, <<>>)>> \o F[Len(defs)]) \o <<Ev("End", "defs", 0, <<>>)>>

\* what is written for Event::End(e)
WriteEnd(e, defs) ==
    IF e.name = "svg" THEN Append(DefsBlock(defs), e) ELSE <<>>

RECURSIVE RewriteFrom(_, _, _, _)
\* the loop over reader.read_event_unbuffered() until Eof
RewriteFrom(evs, sts, defs, o) ==
    IF evs = <<>> THEN o
    ELSE LET e == Head(evs)
         IN  CASE e.ev = "End" ->
                    RewriteFrom(Tail(evs), sts,
                                IF e.name = "svg" THEN <<>> ELSE defs,
                                o \o WriteEnd(e, defs))
               [] e.ev = "Empty" ->
                    RewriteFrom(Tail(evs), sts,
                                IF e.name = "path" /\ sts[IndexOfId(Attr(e, "id")) + 1].st = "Referred"
                                THEN Append(defs, <<IndexOfId(Attr(e, "id")), remove_id_prefix(e)>>)
                                ELSE defs,
                                Append(o, WriteEmpty(e, sts)))
               [] OTHER -> RewriteFrom(Tail(evs), sts, defs, Append(o, e))

\* svgopt.rs: everything after the classification loop
Rewrite ==
    /\ opc = "classify"
    /\ total = NumPaths(tree)
    /\ out' = RewriteFrom(ToXml(tree), states, <<>>, <<>>)
    /\ opc' = "done"
    /\ UNCHANGED <<tree, eps, path_tree, states, total, count, pass, first, svgs>>
    /\ UNCHANGED renderVars
    /\ UNCHANGED geomVars

----------------------------------------------------------------------------
(* Running optimize again on its own output: the output is read back, every *)
(* <use> standing for the definition it refers to, translated by its x, y   *)

\* a length written by the rewrite pass ("0", "5.000", "-0.125"), in eighths
ParseLen(s) ==
    LET neg == s # <<>> /\ Head(s) = "-"
        body == IF neg THEN Tail(s) ELSE s
        dot == FindDelim(body, ".")
        int == IF dot = 0 THEN ParseUsize(body) ELSE ParseUsize(SubSeq(body, 1, dot - 1))
        fr == IF dot = 0 THEN 0 ELSE ParseUsize(SubSeq(body, dot + 1, Len(body)))
        v == (int * 1000 + fr) \div 125
    IN  IF neg THEN -v ELSE v

\* the path element defined under <g id=...> for a reference href = "#id"
DefOf(o, href) ==
    LET i == CHOOSE i \in 1..(Len(o) - 1) :
                 o[i].ev = "Start" /\ o[i].name = "g" /\ Attr(o[i], "id") = Tail(href)
    IN  o[i + 1]

RECURSIVE LeafPaths(_, _, _, _)
\* the leaf paths of the document o in document order (definitions are not drawn)
LeafPaths(o, i, t, inDefs) ==
    IF i > Len(o) THEN <<>>
    ELSE LET e == o[i]
         IN  CASE e.name = "defs" -> LeafPaths(o, i + 1, t, e.ev = "Start")
               [] e.ev = "Empty" /\ e.name = "path" /\ ~inDefs ->
                    <<[t.paths[e.path] EXCEPT !.id = Attr(e, "id")]>>
                    \o LeafPaths(o, i + 1, t, inDefs)
               [] e.ev = "Empty" /\ e.name = "use" /\ ~inDefs ->
                    LET d == DefOf(o, Attr(e, "href"))
                        q == t.paths[d.path]
                    IN  <<[q EXCEPT !.id = Attr(d, "id"),
                                    !.transform = <<q.transform[1] + ParseLen(Attr(e, "x")),
                                                    q.transform[2] + ParseLen(Attr(e, "y"))>>]>>
                        \o LeafPaths(o, i + 1, t, inDefs)
               [] OTHER -> LeafPaths(o, i + 1, t, inDefs)

Reparse(o, t) ==
    LET ps == LeafPaths(o, 1, t, FALSE)
    IN  [events |-> Structure("flat", Len(ps)), paths |-> ps]

\* main.rs hands each parsed page to optimize; here the page is optimize's own output
Rerun ==
    /\ opc = "done"
    /\ pass = 1
    /\ WellFormed(out)
    /\ tree' = Reparse(out, tree)
    /\ path_tree' = EmptyPathTree
    /\ states' = <<>>
    /\ total' = 0
    /\ count' = 0
    /\ opc' = "classify"
    /\ out' = <<>>
    /\ pass' = 2
    /\ first' = [states |-> states, out |-> out, tree |-> tree]
    /\ UNCHANGED <<eps, svgs>>
    /\ UNCHANGED renderVars
    /\ UNCHANGED geomVars

NoErr == [kind |-> "", src |-> <<>>]

\* the fields of Config the region resolver reads, lengths in output units
Cfg(tol, xm, ym, rise) ==
    [y_range_tol |-> tol, x_range_margin |-> xm, y_range_margin |-> ym, baseline_rise |-> rise]

NoConfig == Cfg(0, 0, 0, 0)

\* the renderer's variables while optimize alone is looked at
RenderIdle ==
    /\ rpc = "idle"
    /\ doc = <<>>
    /\ shapeOk = TRUE
    /\ optEnabled = TRUE
    /\ nodes = <<>>
    /\ fragments = <<>>
    /\ lines = <<>>
    /\ numPages = 0
    /\ cur = 0
    /\ line = 0
    /\ seen_boxes = {}
    /\ regions = <<>>
    /\ optimized = 0
    /\ err = NoErr
    /\ stdout = <<>>
    /\ config = NoConfig
    /\ bboxes = <<>>
    /\ folds = <<>>

\* the range functions' variables while another part is looked at
GeomIdle == gpc = "idle" /\ gin = <<>> /\ gout = <<>>

InitOpt ==
    /\ RenderIdle
    /\ GeomIdle
    /\ tree \in Trees
    /\ eps \in EpsValues
    /\ path_tree = EmptyPathTree
    /\ states = <<>>
    /\ total = 0
    /\ count = 0
    /\ opc = "classify"
    /\ out = <<>>
    /\ pass = 1
    /\ first = [states |-> <<>>, out |-> <<>>, tree |-> <<>>]
    /\ svgs = <<>>

NextOpt == Classify \/ Rewrite \/ Rerun

SpecOpt == InitOpt /\ [][NextOpt]_vars

----------------------------------------------------------------------------
(* The pages of one document optimized one after the other (main.rs maps     *)
(* optimize over svgs): a page, another page, and a page equal to the first  *)

\* two outlines within eps of each other, a second colour, and a third outline
PagePathPool ==
    {MkPath(0, 80, "black", FALSE), MkPath(0, 81, "black", FALSE),
     MkPath(0, 80, "red", FALSE), MkPath(40, 80, "black", FALSE)}

FlatPage(ps) ==
    [events |-> Structure("flat", Len(ps)),
     paths |-> [i \in 1..Len(ps) |-> [ps[i] EXCEPT !.id = IdOf(i)]]]

PageTrees == {FlatPage(ps) : ps \in UNION {[1..n -> PagePathPool] : n \in 1..MaxPaths}}

\* the page in between, of one or two paths
OtherPages == {FlatPage(ps) : ps \in [1..1 -> PagePathPool] \cup [1..2 -> PagePathPool]}

InitPages ==
    /\ RenderIdle
    /\ GeomIdle
    /\ \E p \in PageTrees, q \in OtherPages : svgs = <<p, q, p>>
    /\ tree = svgs[1]
    /\ eps \in EpsValues
    /\ path_tree = EmptyPathTree
    /\ states = <<>>
    /\ total = 0
    /\ count = 0
    /\ opc = "classify"
    /\ out = <<>>
    /\ pass = 1
    /\ first = [states |-> <<>>, out |-> <<>>, tree |-> <<>>]

\* the next page handed to optimize, the index of the last call still there
NextPageSharedIndex ==
    /\ opc = "done"
    /\ pass < Len(svgs)
    /\ tree' = svgs[pass + 1]
    /\ path_tree' = path_tree
    /\ states' = <<>>
    /\ total' = 0
    /\ count' = 0
    /\ opc' = "classify"
    /\ out' = <<>>
    /\ pass' = pass + 1
    /\ first' = IF pass = 1 THEN [states |-> states, out |-> out, tree |-> tree] ELSE first
    /\ UNCHANGED <<eps, svgs>>
    /\ UNCHANGED renderVars
    /\ UNCHANGED geomVars

\* the map over svgs calls optimize on the next page: its locals start afresh
NextPage ==
    /\ opc = "done"
    /\ pass < Len(svgs)
    /\ tree' = svgs[pass + 1]
    /\ path_tree' = EmptyPathTree
    /\ states' = <<>>
    /\ total' = 0
    /\ count' = 0
    /\ opc' = "classify"
    /\ out' = <<>>
    /\ pass' = pass + 1
    /\ first' = IF pass = 1 THEN [states |-> states, out |-> out, tree |-> tree] ELSE first
    /\ UNCHANGED <<eps, svgs>>
    /\ UNCHANGED renderVars
    /\ UNCHANGED geomVars

NextPages == Classify \/ Rewrite \/ NextPage

SpecPages == InitPages /\ [][NextPages]_vars

----------------------------------------------------------------------------
(* Properties of the Path Deduplication Optimizer *)

\* same command sequence, and every coordinate within e of the corresponding one
SameShape(f, g, e) ==
    /\ Len(f.elems) = Len(g.elems)
    /\ \A k \in 1..Len(f.elems) :
           /\ f.elems[k].t = g.elems[k].t
           /\ Abs(f.elems[k].x - g.elems[k].x) <= e

\* same command sequence, but some coordinate further than e from the other's
FarShape(f, g, e) ==
    /\ Len(f.elems) = Len(g.elems)
    /\ \A k \in 1..Len(f.elems) : f.elems[k].t = g.elems[k].t
    /\ \E k \in 1..Len(f.elems) : Abs(f.elems[k].x - g.elems[k].x) > e

SameStyleFields(a, b) ==
    /\ a.fill = b.fill
    /\ a.stroke = b.stroke
    /\ a.rendering_mode = b.rendering_mode
    /\ a.visibility = b.visibility

\* C3: a path with the command sequence of an earlier path of the page, every
\* origin-relative coordinate within eps of that path's and identical style, is
\* classified a duplicate (Referring). Stated for the earlier paths that the
\* index holds (those not themselves Referring), which the claim includes.
C3_NearDuplicateIsReferring ==
    \A j \in 1..Len(states) : \A i \in 1..(j - 1) :
        (/\ states[i].st # "Referring"
         /\ SameShape(states[i].fp, states[j].fp, eps)
         /\ SameStyleFields(tree.paths[i], tree.paths[j]))
        => states[j].st = "Referring"

\* C4: a path is never Referring(t) when one of its fingerprint coordinates is
\* further than eps from the corresponding coordinate of path t.
C4_ReferringWithinEps ==
    \A j \in 1..Len(states) :
        states[j].st = "Referring" =>
            /\ states[j].ref + 1 \in 1..(j - 1)
            /\ SameShape(states[j].fp, states[states[j].ref + 1].fp, eps)

\* two classified paths of one style and command sequence, one coordinate apart
\* by more than eps, the later one not a reference to the earlier
C4_Witness ==
    \E j \in 1..Len(states) : \E t \in 1..(j - 1) :
        /\ FarShape(states[j].fp, states[t].fp, eps)
        /\ SameStyleFields(tree.paths[j], tree.paths[t])
        /\ ~(states[j].st = "Referring" /\ states[j].ref = t - 1)

\* C5: a path is Referring(t) only if its style is that of path t; two paths of
\* identical geometry and different fill colour are never duplicates of one another.
C5_ReferringSameFill ==
    \A j \in 1..Len(states) :
        states[j].st = "Referring" =>
            /\ states[j].ref + 1 \in 1..(j - 1)
            /\ SameStyleFields(tree.paths[j], tree.paths[states[j].ref + 1])

\* two classified paths of identical fingerprint and different fill colour
C5_Witness ==
    \E j \in 1..Len(states) : \E t \in 1..(j - 1) :
        /\ states[j].fp.elems = states[t].fp.elems
        /\ tree.paths[j].fill.paint # tree.paths[t].fill.paint
        /\ ~(states[j].st = "Referring" /\ states[j].ref = t - 1)

\* the elements written in place of the leaf paths, in document order
InPlace == SelectSeq(out, LAMBDA e : e.ev = "Empty")

\* the first resolved point of a path
Origin(p) == Apply(p.transform, p.data[1].pts[1])

\* text of the form [-]digits.ddd
ThreeDecimals(s) ==
    /\ Len(s) >= 5
    /\ s[Len(s) - 3] = "."
    /\ \A i \in (Len(s) - 2)..Len(s) : s[i] \in DigitChars

TheScenario ==
    /\ pass = 1
    /\ Len(tree.paths) = 2
    /\ tree.paths[1].data = <<Seg("MoveTo", <<<<0, 0>>>>), Seg("LineTo", <<<<80, 80>>>>)>>
    /\ tree.paths[2].data = <<Seg("MoveTo", <<<<40, 40>>>>), Seg("LineTo", <<<<120, 120>>>>)>>
    /\ tree.paths[1].fill = tree.paths[2].fill

\* C6: a path classified Referring(t) is written as a reference to the definition
\* of t, translated by its own shift origin minus that of t, with 3 decimals; for
\* "M0,0 L10,10" and "M5,5 L15,15" of one fill there is one definition and the
\* reference carries (5.000, 5.000).
C6_ReferenceCarriesDelta ==
    opc = "done" =>
        /\ \A j \in 1..Len(states) :
              states[j].st = "Referring" =>
                  LET e == InPlace[j]
                      t == states[j].ref + 1
                  IN  /\ e.name = "use"
                      /\ DefOf(out, Attr(e, "href")).path = t
                      /\ ThreeDecimals(Attr(e, "x")) /\ ThreeDecimals(Attr(e, "y"))
                      /\ ParseLen(Attr(e, "x")) = Origin(tree.paths[j])[1] - Origin(tree.paths[t])[1]
                      /\ ParseLen(Attr(e, "y")) = Origin(tree.paths[j])[2] - Origin(tree.paths[t])[2]
        /\ TheScenario =>
              /\ Cardinality({i \in 1..Len(out) : out[i].ev = "Start" /\ out[i].name = "g"
                                  /\ Attr(out[i], "id") # <<>>}) = 1
              /\ InPlace[2].name = "use"
              /\ Attr(InPlace[2], "x") = <<"5", ".", "0", "0", "0">>
              /\ Attr(InPlace[2], "y") = <<"5", ".", "0", "0", "0">>

C6_Witness == opc = "done" /\ TheScenario /\ states[2].st = "Referring"

\* C7: the output is well formed: every element opened is closed by a matching
\* end tag, properly nested, whatever containers the input holds.
C7_OutputWellFormed == opc = "done" => WellFormed(out)

\* C8: a second run over the output of the first classifies every path as the
\* first did (same definitions, same references); nothing Referring is reclassified.
C8_SecondPassSame ==
    (pass = 2 /\ opc = "done") =>
        /\ Len(states) = Len(first.states)
        /\ \A i \in 1..Len(states) :
              /\ states[i].st = first.states[i].st
              /\ states[i].ref = first.states[i].ref

----------------------------------------------------------------------------
(* Text of the generated source: a sequence of tokens, " " and "\n" among them *)

IsSpace(c) == c \in {" ", "\n"}

RECURSIVE TrimEnd(_)
\* str::trim_end
TrimEnd(t) == IF t # <<>> /\ IsSpace(t[Len(t)]) THEN TrimEnd(SubSeq(t, 1, Len(t) - 1)) ELSE t

RECURSIVE TrimStart(_)
\* str::trim_start
TrimStart(t) == IF t # <<>> /\ IsSpace(Head(t)) THEN TrimStart(Tail(t)) ELSE t

\* str::trim
Trim(t) == TrimEnd(TrimStart(t))

\* str::starts_with, for a prefix that is one token
StartsWith(t, tok) == t # <<>> /\ Head(t) = tok

\* str::lines().count(): a final line break ends the last line and opens no new one
LinesCount(t) ==
    Cardinality({i \in 1..Len(t) : t[i] = "\n"})
    + (IF t # <<>> /\ t[Len(t)] # "\n" THEN 1 ELSE 0)

RECURSIVE Replace(_, _, _)
\* str::replace(placeholder, src)
Replace(t, ph, src) ==
    IF t = <<>> THEN <<>>
    ELSE (IF Head(t) = ph THEN src ELSE <<Head(t)>>) \o Replace(Tail(t), ph, src)

\* the configuration (config.rs defaults, the preamble shortened to two lines)
Config ==
    [preamble |-> <<"\\documentclass{article}", "\n", "\\begin{document}">>,
     postamble |-> <<"\\end{document}">>,
     template |-> [placeholder |-> "{{fragment}}",
                   inline_math |-> <<"\\(", "{{fragment}}", "\\)">>,
                   display_math |-> <<"\\[", "\n", " ", "{{fragment}}", "\n", "\\]">>]]

----------------------------------------------------------------------------
(* The document and its fragments *)

\* the texts of the document's math and raw tex nodes
Texts == {<<"x">>, <<" ", "x">>, <<"x", "\n", "y">>, <<"%dontshow", "\n", "d">>}

NodeKinds == {"InlineMath", "DisplayMath", "RawTex"}

Docs == UNION {[1..n -> [t : NodeKinds, text : Texts]] : n \in 0..MaxNodes}

\* walk_inline / walk_block: the fragment type of a node
FragmentTypeOf(n) ==
    CASE n.t = "InlineMath" -> "InlineMath"
      [] n.t = "DisplayMath" ->
            IF StartsWith(TrimStart(n.text), "%raw") THEN "RawBlock"
            ELSE IF StartsWith(TrimStart(n.text), "%dontshow") THEN "DontShow"
            ELSE "DisplayMath"
      [] n.t = "RawTex" ->
            IF StartsWith(TrimStart(n.text), "%dontshow") THEN "DontShow" ELSE "RawBlock"

\* FragmentNodeRef of a node: Math nodes are inlines, raw tex nodes are blocks
NodeRef(i, n) == [node |-> i, kind |-> IF n.t = "RawTex" THEN "Block" ELSE "Inline"]

\* an add_fragment that merges fragments of every type
add_fragment_merging_all(frs, ty, src, node_ref) ==
    LET s == Trim(src)
        same == {k \in 1..Len(frs) : frs[k].ty = ty /\ frs[k].src = s}
    IN  IF same # {}
        THEN LET k == CHOOSE k \in same : \A m \in same : k <= m
             IN  [frs EXCEPT ![k].refs = Append(@, node_ref)]
        ELSE Append(frs, [ty |-> ty, src |-> s, refs |-> <<node_ref>>])

\* FragmentRenderer::add_fragment
add_fragment(frs, ty, src, node_ref) ==
    LET s == Trim(src)
        same == {k \in 1..Len(frs) : frs[k].ty = "InlineMath" /\ frs[k].src = s}
    IN  IF ty = "InlineMath" /\ same # {}
        THEN LET k == CHOOSE k \in same : \A m \in same : k <= m
             IN  [frs EXCEPT ![k].refs = Append(@, node_ref)]
        ELSE Append(frs, [ty |-> ty, src |-> s, refs |-> <<node_ref>>])

RECURSIVE WalkFrom(_, _, _)
\* walk_and_create_final_node: the nodes in document order
WalkFrom(d, i, frs) ==
    IF i > Len(d) THEN frs
    ELSE WalkFrom(d, i + 1, add_fragment(frs, FragmentTypeOf(d[i]), d[i].text, NodeRef(i, d[i])))

\* template.replace(placeholder, src).trim_end() for one fragment
Expanded(cfg, item) ==
    LET template == CASE item.ty = "InlineMath" -> cfg.template.inline_math
                      [] item.ty = "DisplayMath" -> cfg.template.display_math
                      [] OTHER -> <<cfg.template.placeholder>>
    IN  TrimEnd(Replace(template, cfg.template.placeholder, item.src))

RECURSIVE LineMappingsFrom(_, _, _, _, _)
LineMappingsFrom(cfg, frs, i, current_line, acc) ==
    IF i > Len(frs) THEN acc
    ELSE LET expanded == Expanded(cfg, frs[i])
             start_line == current_line
             end_line == current_line + LinesCount(expanded)
         IN  LineMappingsFrom(cfg, frs, i + 1, end_line + 1,
                 [output |-> (acc.output \o expanded) \o <<"\n", "\n">>,
                  lines |-> Append(acc.lines, [lo |-> start_line, hi |-> end_line])])

\* FragmentRenderer::generate_latex_with_line_mappings; a range is lo..hi, hi excluded
generate_latex_with_line_mappings(cfg, frs) ==
    LET preamble_trimmed == TrimEnd(cfg.preamble)
        body == LineMappingsFrom(cfg, frs, 1, LinesCount(preamble_trimmed) + 1,
                                 [output |-> Append(preamble_trimmed, "\n"), lines |-> <<>>])
    IN  [output |-> body.output \o cfg.postamble, lines |-> body.lines]

----------------------------------------------------------------------------
(* The Position Scanner's boxes, in units of 2^-10 pt *)

TeXBox(h, v, height, width, depth, page) ==
    [h |-> h, v |-> v, height |-> height, width |-> width, depth |-> depth, page |-> page]

Pages == {1, 2}

\* area.into_inner() <= 1e-6: in squares of 2^-10 pt, 1e-6 pt^2 is 1.048576
AreaSkipMax == 1

Normal(p) == TeXBox(100, 200, 10, 50, 2, p)
ZeroWidth == TeXBox(100, 200, 10, 0, 2, 1)
ZeroHeight == TeXBox(100, 200, 0, 50, 0, 1)
Negative == TeXBox(100, 200, -10, -50, -2, 1)
Tiny == TeXBox(10, 20, 1, 1, 0, 1)
Wide == TeXBox(80, 205, 12, 90, 3, 1)
\* as wide as Normal(1), on another baseline
Level == TeXBox(120, 210, 10, 50, 2, 1)

BoxPool == {Normal(p) : p \in Pages} \cup {ZeroWidth, ZeroHeight, Negative, Tiny}

\* what one scanner.query(line) may return
QueryResults ==
    {<<>>} \cup {<<b>> : b \in BoxPool}
    \cup {<<Normal(1), Normal(2)>>, <<ZeroWidth, Normal(1)>>, <<Normal(1), Normal(1)>>}

NoRegions == <<>>

\* the Region a first box of a page gives (or_insert_with)
NewRegion(tb) ==
    [x_range |-> <<tb.h, tb.h + tb.width>>,
     y_range |-> <<tb.v - tb.height, tb.v + tb.depth>>,
     baseline |-> tb.v,
     baseline_width |-> tb.width]

Min(a, b) == IF a < b THEN a ELSE b
Max(a, b) == IF a > b THEN a ELSE b

\* the ranges taken from the further box alone
ExtendRegionLast(r, tb) ==
    [x_range |-> <<tb.h, tb.h + tb.width>>,
     y_range |-> <<tb.v - tb.height, tb.v + tb.depth>>,
     baseline |-> IF tb.width > r.baseline_width THEN tb.v ELSE r.baseline,
     baseline_width |-> IF tb.width > r.baseline_width THEN tb.width ELSE r.baseline_width]

\* a box as wide as the widest so far takes the baseline over
ExtendRegionLatestTie(r, tb) ==
    [x_range |-> <<Min(r.x_range[1], tb.h), Max(r.x_range[2], tb.h + tb.width)>>,
     y_range |-> <<Min(r.y_range[1], tb.v - tb.height), Max(r.y_range[2], tb.v + tb.depth)>>,
     baseline |-> IF tb.width >= r.baseline_width THEN tb.v ELSE r.baseline,
     baseline_width |-> IF tb.width >= r.baseline_width THEN tb.width ELSE r.baseline_width]

\* and_modify: the Region extended by a further box of the page
ExtendRegion(r, tb) ==
    [x_range |-> <<Min(r.x_range[1], tb.h), Max(r.x_range[2], tb.h + tb.width)>>,
     y_range |-> <<Min(r.y_range[1], tb.v - tb.height), Max(r.y_range[2], tb.v + tb.depth)>>,
     baseline |-> IF tb.width > r.baseline_width THEN tb.v ELSE r.baseline,
     baseline_width |-> IF tb.width > r.baseline_width THEN tb.width ELSE r.baseline_width]

\* the zero-area test of the scan loop
SkippedAsZeroArea(tb) == tb.width * (tb.height + tb.depth) <= AreaSkipMax

\* the regions after box tb is folded into its page's
FoldOne(regs, tb) ==
    IF tb.page \in DOMAIN regs
    THEN [regs EXCEPT ![tb.page] = ExtendRegion(@, tb)]
    ELSE [pg \in DOMAIN regs \cup {tb.page} |->
             IF pg = tb.page THEN NewRegion(tb) ELSE regs[pg]]

RECURSIVE FoldBoxesUnseen(_, _, _)
\* the fold without the look into the seen-set
FoldBoxesUnseen(tbs, seen, regs) ==
    IF tbs = <<>> THEN [seen |-> seen, regions |-> regs, folded |-> <<>>]
    ELSE LET tb == Head(tbs)
         IN  IF SkippedAsZeroArea(tb)
             THEN FoldBoxesUnseen(Tail(tbs), seen, regs)
             ELSE LET r == FoldBoxesUnseen(Tail(tbs), seen \cup {tb}, FoldOne(regs, tb))
                  IN  [r EXCEPT !.folded = <<tb>> \o @]

RECURSIVE FoldBoxes(_, _, _)
\* `for tb in scanner.query(line)`: the seen-set and the regions after the boxes,
\* and the boxes that were folded, in order
FoldBoxes(tbs, seen, regs) ==
    IF tbs = <<>> THEN [seen |-> seen, regions |-> regs, folded |-> <<>>]
    ELSE LET tb == Head(tbs)
         IN  IF SkippedAsZeroArea(tb) \/ tb \in seen
             THEN FoldBoxes(Tail(tbs), seen, regs)
             ELSE LET r == FoldBoxes(Tail(tbs), seen \cup {tb}, FoldOne(regs, tb))
                  IN  [r EXCEPT !.folded = <<tb>> \o @]

\* the pages of a BTreeMap in ascending order
PagesOf(regs) == SortedKeys(DOMAIN regs)

NoHtml == [wrap |-> "", imgs |-> <<>>]

----------------------------------------------------------------------------
(* From typesetting coordinates to the page image.  TEX2SVG_SCALING is      *)
(* 72 / 72.27 = 800 / 803: a typesetting length of n units is 800 n output  *)
(* units, an output unit being 1/803 of a typesetting unit.  Bounding       *)
(* boxes, view boxes, tolerance and margins are lengths in output units.    *)

TEX2SVG_NUM == 800
TEX2SVG_DEN == 803

\* x * TEX2SVG_SCALING, in output units
ToSvg(x) == x * TEX2SVG_NUM

\* 1pt in output units (a typesetting unit is 2^-10 pt)
Pt == 1024 * TEX2SVG_DEN

\* a PathBbox
Rect(left, top, right, bottom) == [left |-> left, top |-> top, right |-> right, bottom |-> bottom]

\* f64::MAX and f64::MIN, beyond every length of the model
F64_MAX == 1000000000
F64_MIN == 0 - F64_MAX

None == [some |-> FALSE, v |-> <<0, 0>>]
Some(v) == [some |-> TRUE, v |-> v]

\* the intersection test of the two range functions, the tolerance already applied
Intersects(y_min, y_max, bbox) == Max(y_min, bbox.top) <= Min(y_max, bbox.bottom)

RECURSIVE XRangeLoop(_, _, _, _, _)
\* the loop of x_range_for_y_range over bboxes
XRangeLoop(bbs, y_min, y_max, x_min, x_max) ==
    IF bbs = <<>> THEN <<x_min, x_max>>
    ELSE LET bbox == Head(bbs)
         IN  IF Intersects(y_min, y_max, bbox)
             THEN XRangeLoop(Tail(bbs), y_min, y_max, Min(x_min, bbox.left), Max(x_max, bbox.right))
             ELSE XRangeLoop(Tail(bbs), y_min, y_max, x_min, x_max)

\* the x range over every bounding box, whatever its y extent
x_range_of_all(bbs, y_min, y_max, tol, margin) ==
    LET x == XRangeLoop(bbs, F64_MIN, F64_MAX, F64_MAX, F64_MIN)
    IN  IF x[1] = F64_MAX THEN None ELSE Some(<<x[1] - margin, x[2] + margin>>)

x_range_for_y_range(bbs, y_min, y_max, tol, margin) ==
    LET x == XRangeLoop(bbs, y_min - tol, y_max + tol, F64_MAX, F64_MIN)
    IN  IF x[1] = F64_MAX THEN None ELSE Some(<<x[1] - margin, x[2] + margin>>)

RECURSIVE YRangeLoop(_, _, _, _, _)
\* the loop of refine_y_range over bboxes
YRangeLoop(bbs, y_min, y_max, new_y_min, new_y_max) ==
    IF bbs = <<>> THEN <<new_y_min, new_y_max>>
    ELSE LET bbox == Head(bbs)
         IN  IF Intersects(y_min, y_max, bbox)
             THEN YRangeLoop(Tail(bbs), y_min, y_max,
                             Min(new_y_min, bbox.top), Max(new_y_max, bbox.bottom))
             ELSE YRangeLoop(Tail(bbs), y_min, y_max, new_y_min, new_y_max)

\* a refinement that leaves the tolerance in the range when no box intersects
refine_y_range_keeping_tol(bbs, y_min0, y_max0, tol, margin) ==
    LET y_min == y_min0 - tol
        y_max == y_max0 + tol
        y == YRangeLoop(bbs, y_min, y_max, F64_MAX, F64_MIN)
    IN  IF y[1] = F64_MAX
        THEN <<y_min - margin, y_max + margin>>
        ELSE <<y[1] - margin, y[2] + margin>>

\* y_min, y_max are shadowed by the tolerance-expanded values, as in the code
refine_y_range(bbs, y_min0, y_max0, tol, margin) ==
    LET y_min == y_min0 - tol
        y_max == y_max0 + tol
        y == YRangeLoop(bbs, y_min, y_max, F64_MAX, F64_MIN)
    IN  IF y[1] = F64_MAX
        THEN <<(y_min + tol) - margin, (y_max - tol) + margin>>
        ELSE <<y[1] - margin, y[2] + margin>>

IsBlock(ty) == ty \in {"DisplayMath", "RawBlock"}

\* the descriptor of one page of a fragment: the values handed to the <img> template
Img(ty, page, region, geo, cfg) ==
    LET svg_idx == page - 1
        y_base == geo[svg_idx + 1].y_base
        y_range == <<ToSvg(region.y_range[1]) + y_base, ToSvg(region.y_range[2]) + y_base>>
        found == x_range_for_y_range(geo[svg_idx + 1].boxes, y_range[1], y_range[2],
                                     cfg.y_range_tol, cfg.x_range_margin)
        x_range == IF found.some THEN found.v
                   ELSE <<ToSvg(region.x_range[1]), ToSvg(region.x_range[2])>>
        baseline == ToSvg(region.baseline) + y_base
        y_refined == IF IsBlock(ty)
                     THEN refine_y_range(geo[svg_idx + 1].boxes, y_range[1], y_range[2],
                                         cfg.y_range_tol, cfg.y_range_margin)
                     ELSE y_range
        depth == IF ty = "InlineMath" THEN y_refined[2] - baseline ELSE 0
    IN  [page |-> page, svg_idx |-> svg_idx,
         x |-> x_range[1], y |-> y_refined[1],
         width |-> x_range[2] - x_range[1], height |-> y_refined[2] - y_refined[1],
         depth |-> depth - cfg.baseline_rise]

\* the descriptors of the first n pages of a fragment, in the map's order
Imgs(item, regs, geo, cfg, n) ==
    [k \in 1..n |-> Img(item.ty, PagesOf(regs)[k], regs[PagesOf(regs)[k]], geo, cfg)]

Html(item, imgs) == [wrap |-> IF item.ty = "InlineMath" THEN "" ELSE "p", imgs |-> imgs]

\* the markup of a fragment whatever was folded: no check for an empty map
FragmentOutcomeUnchecked(item, regs, geo, cfg) ==
    [ok |-> TRUE, err |-> NoErr,
     html |-> Html(item, Imgs(item, regs, geo, cfg, Len(PagesOf(regs))))]

\* an inline fragment on several pages is given its first page
FragmentOutcomeFirstPage(item, regs, geo, cfg) ==
    IF DOMAIN regs = {}
    THEN [ok |-> FALSE, err |-> [kind |-> "no boxes", src |-> item.src], html |-> NoHtml]
    ELSE [ok |-> TRUE, err |-> NoErr,
          html |-> Html(item, Imgs(item, regs, geo, cfg,
                                   IF item.ty = "InlineMath" THEN 1 ELSE Len(PagesOf(regs))))]

\* a descriptor for the first page only, whatever the fragment
FragmentOutcomeOnePage(item, regs, geo, cfg) ==
    IF DOMAIN regs = {}
    THEN [ok |-> FALSE, err |-> [kind |-> "no boxes", src |-> item.src], html |-> NoHtml]
    ELSE IF item.ty = "InlineMath" /\ Cardinality(DOMAIN regs) > 1
    THEN [ok |-> FALSE, err |-> [kind |-> "spans multiple pages", src |-> item.src],
          html |-> NoHtml]
    ELSE [ok |-> TRUE, err |-> NoErr, html |-> Html(item, Imgs(item, regs, geo, cfg, 1))]

\* the checks and the markup that follow a fragment's scan
FragmentOutcome(item, regs, geo, cfg) ==
    IF DOMAIN regs = {}
    THEN [ok |-> FALSE, err |-> [kind |-> "no boxes", src |-> item.src], html |-> NoHtml]
    ELSE IF item.ty = "InlineMath" /\ Cardinality(DOMAIN regs) > 1
    THEN [ok |-> FALSE, err |-> [kind |-> "spans multiple pages", src |-> item.src],
          html |-> NoHtml]
    ELSE [ok |-> TRUE, err |-> NoErr,
          html |-> Html(item, Imgs(item, regs, geo, cfg, Len(PagesOf(regs))))]

\* every node the fragment owns replaced by the markup
ReplaceRefs(ns, item, html) ==
    [i \in 1..Len(ns) |->
        IF \E k \in 1..Len(item.refs) : item.refs[k].node = i
        THEN LET r == item.refs[CHOOSE k \in 1..Len(item.refs) : item.refs[k].node = i]
             IN  [t |-> IF r.kind = "Inline" THEN "RawInline" ELSE "RawBlock", html |-> html]
        ELSE ns[i]]

\* the geometry of a page: the top of its view box and its bounding boxes
Geo(y_base, boxes) == [y_base |-> y_base, boxes |-> boxes]

\* a blank page, and a page with ink over the lines of Normal and ink far below
Geometries ==
    {Geo(0, <<>>),
     Geo(0 - 1000, <<Rect(79000, 150000, 121000, 160000), Rect(0, 900000, 5000, 910000)>>)}

\* the configurations tried: the defaults, and one with negative lengths and a rise
Configs == {Cfg(0, Pt, Pt, 0), Cfg(0 - 500, 0 - 300, 0 - 200, 100)}

\* optimizer.enabled in them: off by default, on in the other
OptimizerEnabled(c) == c # Cfg(0, Pt, Pt, 0)

\* where the loop stands when it enters fragment k
EnterFragment(k) ==
    /\ cur' = k
    /\ line' = IF k <= Len(lines) THEN lines[k].lo ELSE 0
    /\ regions' = NoRegions

----------------------------------------------------------------------------
(* main and FragmentRenderer::render_with_latex *)

Fail(kind, src) ==
    /\ rpc' = "failed"
    /\ err' = [kind |-> kind, src |-> src]

\* Config::load()?: whatever the tolerance, margins and rise, they deserialise
LoadConfig ==
    /\ rpc = "init"
    /\ \E success \in BOOLEAN :
          IF success THEN rpc' = "start" /\ err' = err
          ELSE Fail("cannot load config", <<>>)
    /\ UNCHANGED <<config, doc, shapeOk, optEnabled, nodes, fragments, lines, numPages, cur,
                   line, seen_boxes, regions, optimized, stdout>>
    /\ UNCHANGED <<bboxes, folds>>
    /\ UNCHANGED optVars
    /\ UNCHANGED geomVars

\* the tree is read and parsed; walk_and_create_final_node: the final node is
\* pushed, the fragments collected
Walk ==
    /\ rpc = "start"
    /\ nodes' = Append(nodes, [t |-> "{}", html |-> NoHtml])
    /\ IF shapeOk
       THEN /\ fragments' = WalkFrom(doc, 1, <<>>)
            /\ rpc' = "walked"
            /\ err' = err
       ELSE /\ Fail("malformed document", <<>>)
            /\ fragments' = fragments
    /\ UNCHANGED <<config, doc, shapeOk, optEnabled, lines, numPages, cur, line, seen_boxes,
                   regions, optimized, stdout>>
    /\ UNCHANGED <<bboxes, folds>>
    /\ UNCHANGED optVars
    /\ UNCHANGED geomVars

\* no fragment: the final node is made a dummy and the render returns
EmptyReturn ==
    /\ rpc = "walked"
    /\ fragments = <<>>
    /\ nodes' = [nodes EXCEPT ![Len(nodes)] = [t |-> "RawBlock", html |-> NoHtml]]
    /\ rpc' = "returned"
    /\ UNCHANGED <<config, doc, shapeOk, optEnabled, fragments, lines, numPages, cur, line,
                   seen_boxes, regions, optimized, err, stdout>>
    /\ UNCHANGED <<bboxes, folds>>
    /\ UNCHANGED optVars
    /\ UNCHANGED geomVars

\* the source is generated and written, the typesetting compiler is run
Typeset ==
    /\ rpc = "walked"
    /\ fragments # <<>>
    /\ lines' = generate_latex_with_line_mappings(Config, fragments).lines
    /\ \E success \in BOOLEAN :
          IF success THEN rpc' = "typeset" /\ err' = err
          ELSE Fail("fail to run latex", <<>>)
    /\ UNCHANGED <<config, doc, shapeOk, optEnabled, nodes, fragments, numPages, cur, line,
                   seen_boxes, regions, optimized, stdout>>
    /\ UNCHANGED <<bboxes, folds>>
    /\ UNCHANGED optVars
    /\ UNCHANGED geomVars

\* dvisvgm is run, its output split and parsed into pages; the scanner is opened
RenderSvg ==
    /\ rpc = "typeset"
    /\ \E res \in {"ok", "fail to run dvisvgm", "unparsable svg"} :
          IF res = "ok"
          THEN /\ \E n \in Pages, g \in Geometries :
                     /\ numPages' = n
                     /\ bboxes' = [p \in 1..n |-> g]
               /\ rpc' = "resolve"
               /\ err' = err
               /\ seen_boxes' = {}
               /\ EnterFragment(1)
          ELSE /\ Fail(res, <<>>)
               /\ UNCHANGED <<numPages, bboxes, cur, line, seen_boxes, regions>>
    /\ UNCHANGED <<config, doc, shapeOk, optEnabled, nodes, fragments, lines, optimized, stdout>>
    /\ UNCHANGED folds
    /\ UNCHANGED optVars
    /\ UNCHANGED geomVars

InResolve == rpc = "resolve" /\ cur <= Len(fragments)

\* a DontShow fragment scanned like any other before its nodes are emptied
SkipDontShowScanned ==
    /\ InResolve
    /\ fragments[cur].ty = "DontShow"
    /\ nodes' = ReplaceRefs(nodes, fragments[cur], NoHtml)
    /\ EnterFragment(cur + 1)
    /\ \E tbs \in QueryResults :
          /\ \A i \in 1..Len(tbs) : tbs[i].page <= numPages
          /\ LET f == FoldBoxes(tbs, seen_boxes, NoRegions)
             IN  /\ seen_boxes' = f.seen
                 /\ folds' = folds \o [i \in 1..Len(f.folded) |->
                                          [frag |-> cur, tb |-> f.folded[i]]]
    /\ UNCHANGED <<rpc, config, doc, shapeOk, optEnabled, fragments, lines, numPages,
                   optimized, err, stdout>>
    /\ UNCHANGED bboxes
    /\ UNCHANGED optVars
    /\ UNCHANGED geomVars

\* a DontShow fragment: its nodes are emptied and the loop continues
SkipDontShow ==
    /\ InResolve
    /\ fragments[cur].ty = "DontShow"
    /\ nodes' = ReplaceRefs(nodes, fragments[cur], NoHtml)
    /\ EnterFragment(cur + 1)
    /\ UNCHANGED <<rpc, config, doc, shapeOk, optEnabled, fragments, lines, numPages, seen_boxes,
                   optimized, err, stdout>>
    /\ UNCHANGED <<bboxes, folds>>
    /\ UNCHANGED optVars
    /\ UNCHANGED geomVars

\* one iteration of `for line in line_range`: the query and the fold of its boxes
ScanLine ==
    /\ InResolve
    /\ fragments[cur].ty # "DontShow"
    /\ line < lines[cur].hi
    /\ \E tbs \in QueryResults :
          /\ \A i \in 1..Len(tbs) : tbs[i].page <= numPages
          /\ LET f == FoldBoxes(tbs, seen_boxes, regions)
             IN  /\ seen_boxes' = f.seen
                 /\ regions' = f.regions
                 /\ folds' = folds \o [i \in 1..Len(f.folded) |->
                                          [frag |-> cur, tb |-> f.folded[i]]]
    /\ line' = line + 1
    /\ UNCHANGED <<rpc, config, doc, shapeOk, optEnabled, nodes, fragments, lines, numPages, cur,
                   optimized, err, stdout>>
    /\ UNCHANGED bboxes
    /\ UNCHANGED optVars
    /\ UNCHANGED geomVars

ScanDone == InResolve /\ fragments[cur].ty # "DontShow" /\ line >= lines[cur].hi

\* after the last line: the two checks, the descriptors, the nodes replaced
FinishFragment ==
    /\ ScanDone
    /\ LET o == FragmentOutcome(fragments[cur], regions, bboxes, config)
       IN  IF o.ok
           THEN /\ nodes' = ReplaceRefs(nodes, fragments[cur], o.html)
                /\ EnterFragment(cur + 1)
                /\ UNCHANGED <<rpc, err>>
           ELSE /\ Fail(o.err.kind, o.err.src)
                /\ UNCHANGED <<nodes, cur, line, regions>>
    /\ UNCHANGED <<config, doc, shapeOk, optEnabled, fragments, lines, numPages, seen_boxes,
                   optimized, stdout>>
    /\ UNCHANGED <<bboxes, folds>>
    /\ UNCHANGED optVars
    /\ UNCHANGED geomVars

\* the fragment loop treated as over from its first iteration on
ResolvedFromTheStart == rpc = "resolve"

Resolved == rpc = "resolve" /\ cur > Len(fragments)

\* optimize(tree, eps)? for the next page, when the optimizer is enabled
OptimizePage ==
    /\ Resolved
    /\ optEnabled
    /\ optimized < numPages
    /\ \E success \in BOOLEAN :
          IF success THEN optimized' = optimized + 1 /\ UNCHANGED <<rpc, err>>
          ELSE Fail("optimizer", <<>>) /\ optimized' = optimized
    /\ UNCHANGED <<config, doc, shapeOk, optEnabled, nodes, fragments, lines, numPages, cur, line,
                   seen_boxes, regions, stdout>>
    /\ UNCHANGED <<bboxes, folds>>
    /\ UNCHANGED optVars
    /\ UNCHANGED geomVars

\* every page compressed and encoded, the final node filled in, Ok(()) returned
Encode ==
    /\ Resolved
    /\ ~optEnabled \/ optimized = numPages
    /\ \E success \in BOOLEAN :
          IF success
          THEN /\ nodes' = [nodes EXCEPT ![Len(nodes)] =
                               [t |-> "RawBlock", html |-> [wrap |-> "script", imgs |-> <<>>]]]
               /\ rpc' = "returned"
               /\ err' = err
          ELSE Fail("lzma", <<>>) /\ nodes' = nodes
    /\ UNCHANGED <<config, doc, shapeOk, optEnabled, fragments, lines, numPages, cur, line,
                   seen_boxes, regions, optimized, stdout>>
    /\ UNCHANGED <<bboxes, folds>>
    /\ UNCHANGED optVars
    /\ UNCHANGED geomVars

\* a main that writes the tree however the render ended
RenderEnded == rpc \in {"returned", "failed"}

\* main goes on to the write only past the `?` of render_with_latex
RenderSucceeded == rpc = "returned"

\* serde_json::to_vec(&tree) and stdout().write_all
WriteOutput ==
    /\ RenderSucceeded
    /\ stdout' = nodes
    /\ rpc' = "written"
    /\ UNCHANGED <<config, doc, shapeOk, optEnabled, nodes, fragments, lines, numPages, cur, line,
                   seen_boxes, regions, optimized, err>>
    /\ UNCHANGED <<bboxes, folds>>
    /\ UNCHANGED optVars
    /\ UNCHANGED geomVars

\* the optimizer's variables while the renderer is looked at
OptIdle ==
    /\ tree = [events |-> <<>>, paths |-> <<>>]
    /\ eps = 0
    /\ path_tree = EmptyPathTree
    /\ states = <<>>
    /\ total = 0
    /\ count = 0
    /\ opc = "idle"
    /\ out = <<>>
    /\ pass = 0
    /\ first = [states |-> <<>>, out |-> <<>>, tree |-> <<>>]
    /\ svgs = <<>>

Init ==
    /\ OptIdle
    /\ GeomIdle
    /\ rpc = "init"
    /\ config \in Configs
    /\ bboxes = <<>>
    /\ folds = <<>>
    /\ doc \in Docs
    /\ shapeOk \in BOOLEAN
    /\ optEnabled = OptimizerEnabled(config)
    /\ nodes = [i \in 1..Len(doc) |->
                   [t |-> IF doc[i].t = "RawTex" THEN "RawBlockTex" ELSE "Math",
                    html |-> NoHtml]]
    /\ fragments = <<>>
    /\ lines = <<>>
    /\ numPages = 0
    /\ cur = 0
    /\ line = 0
    /\ seen_boxes = {}
    /\ regions = NoRegions
    /\ optimized = 0
    /\ err = NoErr
    /\ stdout = <<>>

Next ==
    \/ LoadConfig \/ Walk \/ EmptyReturn \/ Typeset \/ RenderSvg
    \/ SkipDontShow \/ ScanLine \/ FinishFragment
    \/ OptimizePage \/ Encode \/ WriteOutput

Spec == Init /\ [][Next]_vars

----------------------------------------------------------------------------
(* The fold of a fragment's boxes, the two range functions and the          *)
(* descriptor, each applied to arguments drawn from bounded sets            *)

FoldPool == BoxPool \cup {Wide, Level}

\* the boxes the scanner returns over the lines of one fragment
FoldInputs == {[fn |-> "fold", tbs |-> tbs] : tbs \in UNION {[1..n -> FoldPool] : n \in 0..MaxBoxes}}

\* Regions a fold can leave: of Normal(1); of Normal(1) and Wide; of Negative
RegionPool ==
    {NewRegion(Normal(1)), ExtendRegion(NewRegion(Normal(1)), Wide), NewRegion(Negative)}

\* ink over the lines of Normal(1); ink just below them; ink far below; ink within
RectPool ==
    {Rect(79000, 150000, 121000, 160000), Rect(60000, 161700, 130000, 170000),
     Rect(0, 900000, 5000, 910000), Rect(90000, 155000, 100000, 156000)}

TolValues == {0, 500, 0 - 500}
XMarginValues == {0, 300}
YMarginValues == {0, 200}
RiseValues == {0, 100}
YBaseValues == {0, 0 - 1000}

\* a fragment type, the Region of its page 1, the page's geometry, a configuration
RangeInputs ==
    {[fn |-> "range", ty |-> ty, region |-> r, geo |-> <<Geo(yb, bbs)>>,
      cfg |-> Cfg(tol, xm, ym, rise)] :
        ty \in {"InlineMath", "DisplayMath", "RawBlock"}, r \in RegionPool,
        yb \in YBaseValues, bbs \in UNION {[1..n -> RectPool] : n \in 0..MaxBboxes},
        tol \in TolValues, xm \in XMarginValues, ym \in YMarginValues, rise \in RiseValues}

\* a stroke of usvg: paint and dash pattern vary, the other fields are the defaults
Stroke(paint, dasharray) ==
    [some |-> TRUE, paint |-> paint, opacity |-> 1, dashoffset |-> 0,
     dasharray |-> dasharray, linecap |-> "butt", linejoin |-> "miter", miterlimit |-> 4]

Dash(v) == [some |-> TRUE, v |-> v]

\* no pattern, "1 1", "1 1.125", "1 1.5", and "1 1 2 2" (lengths in eighths)
DashPool == {NoDash, Dash(<<8, 8>>), Dash(<<8, 9>>), Dash(<<8, 12>>), Dash(<<8, 8, 16, 16>>)}

\* one outline, unstroked or stroked in each paint and dash pattern
StylePool ==
    {MkPath(0, 80, "black", FALSE)}
    \cup {[MkPath(0, 80, "black", FALSE) EXCEPT !.stroke = Stroke(c, d)] :
              c \in Colours, d \in DashPool}

\* two paths and a tolerance for same_style
StyleInputs == {[fn |-> "style", a |-> a, b |-> b, eps |-> e] :
                   a \in StylePool, b \in StylePool, e \in EpsValues}

\* the preamble: empty, blank, one line, the default, and one ending in a line break
Preambles ==
    {<<>>, <<"\n">>, <<"\\documentclass{article}">>, Config.preamble,
     <<"\\documentclass{article}", "\n">>}

\* the trimmed source of a fragment: empty, one line, two lines
Sources == {<<>>, <<"x">>, <<"x", "\n", "y">>}

\* self.config and self.fragments: the fragments of up to MaxNodes nodes
LatexInputs ==
    {[fn |-> "latex", cfg |-> [Config EXCEPT !.preamble = pre], frs |-> frs] :
        pre \in Preambles,
        frs \in UNION {[1..n -> [ty : {"InlineMath", "DisplayMath", "RawBlock", "DontShow"},
                                  src : Sources, refs : {<<>>}]] : n \in 0..MaxNodes}}

\* the converted y range the two range functions are called with
ConvertedY(i) ==
    <<ToSvg(i.region.y_range[1]) + i.geo[1].y_base, ToSvg(i.region.y_range[2]) + i.geo[1].y_base>>

\* one box of the query results folded
FoldStep ==
    /\ gpc = "fold"
    /\ gout.rest # <<>>
    /\ LET f == FoldBoxes(<<Head(gout.rest)>>, gout.seen, gout.regions)
       IN  gout' = [seen |-> f.seen, regions |-> f.regions,
                    folded |-> gout.folded \o f.folded, rest |-> Tail(gout.rest)]
    /\ UNCHANGED <<gpc, gin>>
    /\ UNCHANGED optVars
    /\ UNCHANGED renderVars

ApplyXRange ==
    /\ gpc = "range"
    /\ gout' = [fn |-> "x_range_for_y_range",
                v |-> x_range_for_y_range(gin.geo[1].boxes, ConvertedY(gin)[1], ConvertedY(gin)[2],
                                          gin.cfg.y_range_tol, gin.cfg.x_range_margin)]
    /\ gpc' = "done"
    /\ UNCHANGED gin
    /\ UNCHANGED optVars
    /\ UNCHANGED renderVars

ApplyRefine ==
    /\ gpc = "range"
    /\ gout' = [fn |-> "refine_y_range",
                v |-> refine_y_range(gin.geo[1].boxes, ConvertedY(gin)[1], ConvertedY(gin)[2],
                                     gin.cfg.y_range_tol, gin.cfg.y_range_margin)]
    /\ gpc' = "done"
    /\ UNCHANGED gin
    /\ UNCHANGED optVars
    /\ UNCHANGED renderVars

\* the body of the loop over a fragment's regions, for its page 1
EmitImg ==
    /\ gpc = "range"
    /\ gout' = [fn |-> "img", v |-> Img(gin.ty, 1, gin.region, gin.geo, gin.cfg)]
    /\ gpc' = "done"
    /\ UNCHANGED gin
    /\ UNCHANGED optVars
    /\ UNCHANGED renderVars

\* same_style(s, p, eps) as the classification loop calls it
ApplySameStyle ==
    /\ gpc = "style"
    /\ gout' = [fn |-> "same_style", v |-> same_style(gin.a, gin.b, gin.eps)]
    /\ gpc' = "done"
    /\ UNCHANGED gin
    /\ UNCHANGED optVars
    /\ UNCHANGED renderVars

ApplyGenerateLatex ==
    /\ gpc = "latex"
    /\ gout' = [fn |-> "latex", v |-> generate_latex_with_line_mappings(gin.cfg, gin.frs)]
    /\ gpc' = "done"
    /\ UNCHANGED gin
    /\ UNCHANGED optVars
    /\ UNCHANGED renderVars

InitFn ==
    /\ OptIdle
    /\ RenderIdle
    /\ gin \in FoldInputs \cup RangeInputs \cup StyleInputs \cup LatexInputs
    /\ gpc = gin.fn
    /\ gout = IF gin.fn = "fold"
              THEN [seen |-> {}, regions |-> NoRegions, folded |-> <<>>, rest |-> gin.tbs]
              ELSE <<>>

NextFn == FoldStep \/ ApplyXRange \/ ApplyRefine \/ EmitImg \/ ApplySameStyle \/ ApplyGenerateLatex

SpecFn == InitFn /\ [][NextFn]_vars

----------------------------------------------------------------------------
(* Properties of the renderer *)

\* the fragments the resolve loop has completed
Completed == IF rpc \in {"resolve", "returned", "written", "failed"} /\ cur > 0
             THEN 1..(cur - 1) ELSE {}

\* the markup now standing at the nodes fragment k owns
MarkupOf(k) == {nodes[fragments[k].refs[r].node].html : r \in 1..Len(fragments[k].refs)}

\* C1: a fragment that is not suppressed and for which, every line of its range
\* scanned, no box was folded into any page's Region makes the render fail with
\* an error naming its source; no descriptor is produced for it (no completed
\* fragment that is shown carries markup without an image).
C1_NoBoxesFails ==
    /\ [](\A k \in Completed :
             fragments[k].ty # "DontShow" => \A h \in MarkupOf(k) : h.imgs # <<>>)
    /\ [][(ScanDone /\ DOMAIN regions = {})
            => /\ rpc' = "failed"
               /\ err' = [kind |-> "no boxes", src |-> fragments[cur].src]
               /\ nodes' = nodes
               /\ stdout' = <<>>]_vars

\* the render has failed for want of boxes, on the fragment the error names
C1_Witness ==
    /\ rpc = "failed"
    /\ cur \in 1..Len(fragments)
    /\ err = [kind |-> "no boxes", src |-> fragments[cur].src]
    /\ line = lines[cur].hi
    /\ DOMAIN regions = {}

\* C2: an InlineMath fragment whose folded boxes lie on two or more pages makes
\* the render fail; no page is picked for it, and every InlineMath fragment that
\* is rendered carries exactly one descriptor.
C2_InlineOnePage ==
    /\ [](\A k \in Completed :
             fragments[k].ty = "InlineMath" => \A h \in MarkupOf(k) : Len(h.imgs) = 1)
    /\ [][(ScanDone /\ fragments[cur].ty = "InlineMath" /\ Cardinality(DOMAIN regions) >= 2)
            => /\ rpc' = "failed"
               /\ err' = [kind |-> "spans multiple pages", src |-> fragments[cur].src]
               /\ nodes' = nodes
               /\ stdout' = <<>>]_vars

\* the render has failed on an inline fragment with boxes folded on two pages
C2_Witness ==
    /\ rpc = "failed"
    /\ err.kind = "spans multiple pages"
    /\ fragments[cur].ty = "InlineMath"
    /\ DOMAIN regions = {1, 2}

\* C9: the tree is written only after every fragment is resolved and every page
\* optimized and encoded; when a stage fails nothing is written, though nodes of
\* earlier fragments may already have been replaced in memory.
C9_NoPartialOutput ==
    /\ rpc # "written" => stdout = <<>>
    /\ rpc = "written" =>
          /\ err = NoErr
          /\ stdout = nodes
          /\ \A i \in 1..Len(doc) : stdout[i].t \in {"RawInline", "RawBlock"}
          /\ stdout[Len(stdout)].t = "RawBlock"
          /\ fragments # <<>> =>
                /\ cur > Len(fragments)
                /\ optEnabled => optimized = numPages

\* a later fragment has failed after an earlier one's node was replaced
C9_Witness ==
    /\ rpc = "failed"
    /\ \E i \in 1..Len(doc) : nodes[i].t \in {"RawInline", "RawBlock"}
    /\ stdout = <<>>

\* C10: every PositionBox folded into a Region (every box of the seen-set) has
\* width > 0 and height + depth > 0.
C10_FoldedBoxesPositive ==
    \A tb \in seen_boxes : tb.width > 0 /\ tb.height + tb.depth > 0

----------------------------------------------------------------------------
(* Properties of the region resolver *)

SetMin(S) == CHOOSE x \in S : \A y \in S : x <= y
SetMax(S) == CHOOSE x \in S : \A y \in S : x >= y

\* the boxes of a query that are neither skipped, nor seen, nor a repetition
\* within the query, in the order returned
FirstNew(tbs, seen) ==
    LET idx == {i \in 1..Len(tbs) :
                   /\ ~(tbs[i].width * (tbs[i].height + tbs[i].depth) <= AreaSkipMax)
                   /\ tbs[i] \notin seen
                   /\ \A j \in 1..(i - 1) : tbs[j] # tbs[i]}
    IN  [k \in 1..Cardinality(idx) |-> tbs[SortedKeys(idx)[k]]]

\* the pages on which a box was folded for fragment k
FoldPages(k) == {folds[i].tb.page : i \in {j \in 1..Len(folds) : folds[j].frag = k}}

\* C11: the seen-set is global to the render and only grows; each distinct box
\* is folded once over the whole render, for the fragment and line whose query
\* first returns it: a box returned again, for a later line or fragment, is
\* skipped; the current fragment's Regions are those of the pages it folded on.
C11_SeenSetGlobal ==
    /\ [](/\ \A i, j \in 1..Len(folds) : folds[i].tb = folds[j].tb => i = j
          /\ seen_boxes = {folds[i].tb : i \in 1..Len(folds)}
          /\ InResolve => DOMAIN regions = FoldPages(cur))
    /\ [][/\ seen_boxes \subseteq seen_boxes'
          /\ Len(folds') >= Len(folds) /\ SubSeq(folds', 1, Len(folds)) = folds
          /\ (InResolve /\ cur' = cur /\ line' = line + 1) =>
                \E tbs \in QueryResults :
                   LET new == FirstNew(tbs, seen_boxes)
                   IN  /\ seen_boxes' = seen_boxes \cup {new[k] : k \in 1..Len(new)}
                       /\ folds' = folds \o [k \in 1..Len(new) |->
                                       [frag |-> cur, tb |-> new[k]]]]_vars

\* the second fragment is scanned through, boxes were folded for the first and
\* for the second, and the seen-set holds them all
C11_Witness ==
    /\ rpc = "resolve"
    /\ cur = 2
    /\ Len(fragments) = 2
    /\ line = lines[cur].hi
    /\ \E i, j \in 1..Len(folds) : folds[i].frag = 1 /\ folds[j].frag = 2
    /\ Cardinality(seen_boxes) = 3

\* C16: a resolved fragment carries one descriptor per page on which one of its
\* boxes was folded (one for InlineMath), in ascending page order, each
\* referring to the image of its own page.
C16_OneDescriptorPerPage ==
    \A k \in Completed :
        fragments[k].ty # "DontShow" =>
            \A h \in MarkupOf(k) :
                /\ Len(h.imgs) = Cardinality(FoldPages(k))
                /\ {h.imgs[i].page : i \in 1..Len(h.imgs)} = FoldPages(k)
                /\ \A i \in 1..Len(h.imgs) : h.imgs[i].svg_idx = h.imgs[i].page - 1
                /\ \A i \in 1..(Len(h.imgs) - 1) : h.imgs[i].page < h.imgs[i + 1].page
                /\ fragments[k].ty = "InlineMath" => Len(h.imgs) = 1

\* a block fragment was resolved with boxes folded on two pages
C16_Witness ==
    \E k \in Completed :
        /\ fragments[k].ty = "DisplayMath"
        /\ FoldPages(k) = {1, 2}
        /\ \A h \in MarkupOf(k) : Len(h.imgs) = 2

\* a tolerance or a margin below zero
InvalidConfig(c) == c.y_range_tol < 0 \/ c.x_range_margin < 0 \/ c.y_range_margin < 0

\* C17: a configuration with an invalid tolerance or margin is rejected at
\* startup: no fragment is collected and no external process is run with it.
C17_InvalidConfigRejected ==
    InvalidConfig(config) =>
        /\ rpc \in {"init", "failed"}
        /\ rpc = "failed" => err.kind = "cannot load config"
        /\ fragments = <<>>

----------------------------------------------------------------------------
(* Properties of the fold *)

\* the boxes folded so far for page p, the functions looked at alone
FoldedOn(p) == {gout.folded[i] : i \in {j \in 1..Len(gout.folded) : gout.folded[j].page = p}}

\* C12: after any sequence of boxes folded for a fragment, each page's Region
\* has x-range [min h, max (h + width)] and y-range [min (v - height),
\* max (v + depth)] over exactly the boxes folded for that page; the single box
\* (h=100, v=200, width=50, height=10, depth=2, page 1) gives [100,150],
\* [190,202] and baseline 200.
C12_RegionIsUnion ==
    gpc = "fold" =>
        /\ DOMAIN gout.regions = {gout.folded[i].page : i \in 1..Len(gout.folded)}
        /\ \A p \in DOMAIN gout.regions :
              /\ gout.regions[p].x_range =
                    <<SetMin({b.h : b \in FoldedOn(p)}), SetMax({b.h + b.width : b \in FoldedOn(p)})>>
              /\ gout.regions[p].y_range =
                    <<SetMin({b.v - b.height : b \in FoldedOn(p)}),
                      SetMax({b.v + b.depth : b \in FoldedOn(p)})>>
        /\ (gin.tbs = <<TeXBox(100, 200, 10, 50, 2, 1)>> /\ gout.rest = <<>>) =>
              /\ gout.regions[1].x_range = <<100, 150>>
              /\ gout.regions[1].y_range = <<190, 202>>
              /\ gout.regions[1].baseline = 200

\* Normal(1) and then Wide were folded on page 1
C12_Witness ==
    /\ gpc = "fold"
    /\ gout.rest = <<>>
    /\ gout.folded = <<Normal(1), Wide>>
    /\ gout.regions[1].x_range = <<80, 170>>

\* C13: each page's Region has baseline-width the maximum width among the boxes
\* folded for the page, and baseline the v of the earliest folded box of that
\* width.
C13_BaselineOfWidest ==
    gpc = "fold" =>
        \A p \in DOMAIN gout.regions :
            LET w == SetMax({b.width : b \in FoldedOn(p)})
                first_widest == SetMin({i \in 1..Len(gout.folded) :
                                           gout.folded[i].page = p /\ gout.folded[i].width = w})
            IN  /\ gout.regions[p].baseline_width = w
                /\ gout.regions[p].baseline = gout.folded[first_widest].v

\* two boxes of the same, greatest width were folded on page 1, Normal(1) first
C13_Witness ==
    /\ gpc = "fold"
    /\ gout.rest = <<>>
    /\ gout.folded = <<Normal(1), Level>>
    /\ gout.regions[1].baseline = 200

----------------------------------------------------------------------------
(* Properties of the range functions and of the descriptor *)

\* the bounding boxes of the page whose y extent meets [lo, hi]
Meeting(bbs, lo, hi) ==
    {i \in 1..Len(bbs) :
        lo <= hi /\ bbs[i].top <= bbs[i].bottom /\ lo <= bbs[i].bottom /\ bbs[i].top <= hi}

\* those meeting the converted y range of the arguments, widened by the tolerance
Selected ==
    Meeting(gin.geo[1].boxes, ConvertedY(gin)[1] - gin.cfg.y_range_tol,
            ConvertedY(gin)[2] + gin.cfg.y_range_tol)

\* the typesetting x range of the arguments, converted
ConvertedX == <<ToSvg(gin.region.x_range[1]), ToSvg(gin.region.x_range[2])>>

\* C14: the vertical offset of a descriptor is y_max - baseline for an
\* InlineMath fragment and 0 for a DisplayMath or RawBlock fragment, whatever
\* the configuration.
C14_VerticalOffset ==
    (gpc = "done" /\ gout.fn = "img") =>
        gout.v.depth = IF gin.ty = "InlineMath"
                       THEN ConvertedY(gin)[2] - (ToSvg(gin.region.baseline) + gin.geo[1].y_base)
                       ELSE 0

\* C15: the x range of a descriptor has the x margin added to both ends, when
\* it comes from the bounding boxes that were selected and when none was
\* selected and the typesetting x range is kept.
C15_XMarginBothEnds ==
    (gpc = "done" /\ gout.fn = "img") =>
        LET bbs == gin.geo[1].boxes
            tight == IF Selected = {} THEN ConvertedX
                     ELSE <<SetMin({bbs[i].left : i \in Selected}),
                            SetMax({bbs[i].right : i \in Selected})>>
        IN  /\ gout.v.x = tight[1] - gin.cfg.x_range_margin
            /\ gout.v.x + gout.v.width = tight[2] + gin.cfg.x_range_margin

\* C18: x_range_for_y_range selects the boxes b with max(y_min - tol, b.top) <=
\* min(y_max + tol, b.bottom); it returns (min left - margin, max right +
\* margin) over them, and no range when there is none.
C18_XRangeOfSelected ==
    (gpc = "done" /\ gout.fn = "x_range_for_y_range") =>
        LET bbs == gin.geo[1].boxes
        IN  IF Selected = {} THEN ~gout.v.some
            ELSE /\ gout.v.some
                 /\ gout.v.v = <<SetMin({bbs[i].left : i \in Selected}) - gin.cfg.x_range_margin,
                                 SetMax({bbs[i].right : i \in Selected}) + gin.cfg.x_range_margin>>

\* a range was returned for a page of two boxes of which one alone is selected,
\* the other reaching further left
C18_Witness ==
    /\ gpc = "done"
    /\ gout.fn = "x_range_for_y_range"
    /\ gout.v.some
    /\ Len(gin.geo[1].boxes) = 2
    /\ Cardinality(Selected) = 1
    /\ \E i \in 1..2 : i \notin Selected /\ gin.geo[1].boxes[i].left < gout.v.v[1]

\* what the refinement of the y range is to give
RefinedY ==
    LET bbs == gin.geo[1].boxes
    IN  IF Selected = {}
        THEN <<ConvertedY(gin)[1] - gin.cfg.y_range_margin,
               ConvertedY(gin)[2] + gin.cfg.y_range_margin>>
        ELSE <<SetMin({bbs[i].top : i \in Selected}) - gin.cfg.y_range_margin,
               SetMax({bbs[i].bottom : i \in Selected}) + gin.cfg.y_range_margin>>

\* C19: refine_y_range gives (min top - margin, max bottom + margin) over the
\* selected boxes, and the converted y range widened by the margin alone when
\* none is selected; a DisplayMath or RawBlock descriptor carries that range,
\* an InlineMath descriptor the converted typesetting y range.
C19_YRangeRefinedForBlocks ==
    /\ (gpc = "done" /\ gout.fn = "refine_y_range") => gout.v = RefinedY
    /\ (gpc = "done" /\ gout.fn = "img") =>
          <<gout.v.y, gout.v.y + gout.v.height>> =
              IF IsBlock(gin.ty) THEN RefinedY ELSE ConvertedY(gin)

\* the range was refined with a tolerance and a margin, no box being selected
C19_Witness ==
    /\ gpc = "done"
    /\ gout.fn = "refine_y_range"
    /\ gin.geo[1].boxes # <<>>
    /\ Selected = {}
    /\ gin.cfg.y_range_tol = 500
    /\ gin.cfg.y_range_margin = 200
    /\ gout.v = <<ConvertedY(gin)[1] - 200, ConvertedY(gin)[2] + 200>>

----------------------------------------------------------------------------
(* Properties of the optimizer's rewrite pass *)

\* C20: in the output of the rewrite pass every path left Standalone stands
\* where it stood, a path element with its attributes and its original id; it
\* is not in the definitions block; every element that is not a path is passed
\* through unchanged.
C20_StandaloneInPlace ==
    (pass = 1 /\ opc = "done") =>
        LET xin == ToXml(tree)
            n == Len(xin)
        IN  /\ Len(out) >= n
            /\ \A k \in 1..(n - 1) :
                  IF xin[k].name = "path"
                  THEN states[xin[k].path].st = "Standalone" =>
                          out[k] = [xin[k] EXCEPT !.attrs = <<<<"id", IdOf(xin[k].path)>>>>]
                  ELSE out[k] = xin[k]
            /\ out[Len(out)] = xin[n]
            /\ \A k \in n..Len(out) :
                  out[k].name = "path" =>
                     \E i \in 1..Len(states) :
                        states[i].st = "Referred" /\ Attr(out[k], "id") = IdOf(i)

\* the indices of the paths classified Referred, in document order
ReferredPaths == SelectSeq([i \in 1..Len(states) |-> i], LAMBDA i : states[i].st = "Referred")

\* how many events of evs satisfy Test
CountEvents(evs, Test(_)) == Len(SelectSeq(evs, Test))

StatesConsistent ==
    \A i \in 1..Len(states) :
        /\ states[i].st = "Referring" =>
              /\ states[i].ref >= 0
              /\ states[i].ref < i - 1
              /\ states[states[i].ref + 1].st = "Referred"
        /\ states[i].st = "Referred" =>
              \E j \in (i + 1)..Len(states) :
                  states[j].st = "Referring" /\ states[j].ref = i - 1

\* a path turns Referred in the step that classifies a duplicate of it
PromotedWithDuplicate ==
    Len(states') > Len(states) =>
        \A i \in 1..Len(states) :
            (states[i].st # "Referred" /\ states'[i].st = "Referred") =>
                /\ states[i].st = "Standalone"
                /\ Len(states') = Len(states) + 1
                /\ states'[Len(states')].st = "Referring"
                /\ states'[Len(states')].ref = i - 1

\* C22: at every point of classification a Referring(t) path has t smaller
\* than its own index and path t is Referred (not Standalone, not Referring, so
\* references never chain); a path is Referred only if a later path is
\* Referring to it, and it is promoted in the very step that classifies its
\* first duplicate.
C22_ReferencesPointBack == []StatesConsistent /\ [][PromotedWithDuplicate]_vars

\* the third path was classified a duplicate of the second, promoting it
C22_Witness ==
    /\ opc = "classify"
    /\ pass = 1
    /\ Len(states) = 3
    /\ states[1].st = "Standalone"
    /\ states[2].st = "Referred"
    /\ states[3] = St("Referring", 1, states[3].fp)

\* the elements of a sequence
Range(f) == {f[i] : i \in DOMAIN f}

\* the indexed paths whose fingerprint matches the query within e
IndexedMatches(pt, fingerprint, e) ==
    UNION {Range(pt[n]) : n \in {k \in DOMAIN pt : SameShape([elems |-> k], fingerprint, e)}}

\* C23: find_similar returns all indexed paths whose fingerprint matches the
\* query (same length, equal command tokens, every coordinate within eps), also
\* when other indexed fingerprints lie within the lookup ranges. Stated for the
\* lookup the classification loop is about to make.
C23_LookupFindsAllMatches ==
    (opc = "classify" /\ total < NumPaths(tree)) =>
        LET fingerprint == PathFingerprintNew(CurrentPath)
        IN  Range(find_similar(path_tree, fingerprint, eps))
                = IndexedMatches(path_tree, fingerprint, eps)

\* C24: same_style holds only if the strokes are both absent, or both present
\* with equal paint, opacity, cap, join and miter limit and with dash patterns
\* that are both absent or have the same number of elements, element-wise
\* within eps; paths whose dash patterns differ in length are never duplicates.
C24_SameStyleComparesDashes ==
    (gpc = "done" /\ gout.fn = "same_style" /\ gout.v) =>
        LET a == gin.a.stroke
            b == gin.b.stroke
        IN  \/ ~a.some /\ ~b.some
            \/ /\ a.some /\ b.some
               /\ a.paint = b.paint
               /\ a.opacity = b.opacity
               /\ a.linecap = b.linecap
               /\ a.linejoin = b.linejoin
               /\ a.miterlimit = b.miterlimit
               /\ \/ ~a.dasharray.some /\ ~b.dasharray.some
                  \/ /\ a.dasharray.some /\ b.dasharray.some
                     /\ Len(a.dasharray.v) = Len(b.dasharray.v)
                     /\ \A k \in 1..Len(a.dasharray.v) :
                           Abs(a.dasharray.v[k] - b.dasharray.v[k]) <= gin.eps

\* the index holds each path classified so far that is not Referring, once
IndexIsTheNonReferring ==
    /\ UNION {Range(path_tree[n]) : n \in DOMAIN path_tree}
          = {tree.paths[i] : i \in {j \in 1..Len(states) : states[j].st # "Referring"}}
    /\ \A n \in DOMAIN path_tree : \A i, j \in 1..Len(path_tree[n]) :
          path_tree[n][i] = path_tree[n][j] => i = j

\* one classification step: the path is inserted (at the end of the leaf of its
\* fingerprint) iff the lookup found no style-equal match; nothing else changes
IndexStep ==
    pass' = pass =>
        /\ \A n \in DOMAIN path_tree :
              /\ n \in DOMAIN path_tree'
              /\ Len(path_tree'[n]) >= Len(path_tree[n])
              /\ SubSeq(path_tree'[n], 1, Len(path_tree[n])) = path_tree[n]
        /\ Len(states') = Len(states) + 1 =>
              LET p == CurrentPath
                  fingerprint == PathFingerprintNew(p)
                  found == StyleMatches(find_similar(path_tree, fingerprint, eps), p) # {}
                  leaf == fingerprint.elems
              IN  /\ states'[Len(states')].st = (IF found THEN "Referring" ELSE "Standalone")
                  /\ found => path_tree' = path_tree
                  /\ ~found =>
                        /\ leaf \in DOMAIN path_tree'
                        /\ path_tree'[leaf]
                              = Append(IF leaf \in DOMAIN path_tree THEN path_tree[leaf] ELSE <<>>, p)
                        /\ \A n \in DOMAIN path_tree' \ {leaf} :
                              path_tree'[n] = IF n \in DOMAIN path_tree THEN path_tree[n] ELSE <<>>

\* C25: the index is append-only and holds exactly the paths that were not
\* classified Referring: a path is inserted iff its lookup found no style-equal
\* match (it is then Standalone), a Referring path is never inserted, and no
\* entry is removed or changed.
C25_IndexAppendOnly == []IndexIsTheNonReferring /\ [][IndexStep]_vars

\* a leaf of the index holding two paths, while a third path is a reference
C25_Witness ==
    /\ opc = "classify"
    /\ Len(states) = 3
    /\ \E n \in DOMAIN path_tree : Len(path_tree[n]) = 2
    /\ states[3].st = "Referring"

\* the paths of the page being optimized, as the run has them
PagePaths == {tree.paths[i] : i \in 1..Len(tree.paths)}

\* C26: every page's optimizer run has an index of its own: it is empty when
\* the run starts and holds paths of this page only; a path is Referring only
\* to an earlier path of its own page, within eps of it; and a page equal to
\* the first page of the document, optimized after another page, gets the
\* classification and the output the first page got.
C26_PagesIndependent ==
    /\ (opc = "classify" /\ total = 0) => path_tree = EmptyPathTree
    /\ UNION {Range(path_tree[n]) : n \in DOMAIN path_tree} \subseteq PagePaths
    /\ \A j \in 1..Len(states) :
          states[j].st = "Referring" =>
              /\ states[j].ref + 1 \in 1..(j - 1)
              /\ SameShape(states[j].fp, states[states[j].ref + 1].fp, eps)
              /\ same_style(tree.paths[states[j].ref + 1], tree.paths[j], eps)
    /\ (pass = 3 /\ opc = "done") => (states = first.states /\ out = first.out)

\* the third page is done; as on the first page its second path refers to its
\* first, of which the page optimized in between held a copy
C26_Witness ==
    /\ pass = 3
    /\ opc = "done"
    /\ Len(states) >= 2
    /\ states[2] = St("Referring", 0, states[2].fp)
    /\ svgs[2].paths[1] = svgs[1].paths[1]

RECURSIVE LinesOf(_)
\* the lines of a text, as str::lines yields them
LinesOf(t) ==
    IF t = <<>> THEN <<>>
    ELSE IF \E k \in 1..Len(t) : t[k] = "\n"
         THEN LET k == CHOOSE k \in 1..Len(t) : t[k] = "\n" /\ \A m \in 1..(k - 1) : t[m] # "\n"
              IN  <<SubSeq(t, 1, k - 1)>> \o LinesOf(SubSeq(t, k + 1, Len(t)))
         ELSE <<t>>

\* C27: generate_latex_with_line_mappings gives fragment i exactly the 1-based
\* line numbers its expansion occupies in the generated text: the lines of the
\* range are the lines of the expansion, the ranges are in fragment order and
\* pairwise disjoint, also when the preamble or an expansion is empty.
C27_LineRangesExact ==
    (gpc = "done" /\ gout.fn = "latex") =>
        LET text == LinesOf(gout.v.output)
            rs == gout.v.lines
        IN  /\ Len(rs) = Len(gin.frs)
            /\ \A i \in 1..Len(rs) :
                  LET e == LinesOf(Expanded(gin.cfg, gin.frs[i]))
                  IN  /\ rs[i].lo >= 1
                      /\ rs[i].hi = rs[i].lo + Len(e)
                      /\ rs[i].hi - 1 <= Len(text)
                      /\ \A k \in 1..Len(e) : text[rs[i].lo + k - 1] = e[k]
            /\ \A i \in 1..(Len(rs) - 1) : rs[i].hi <= rs[i + 1].lo

----------------------------------------------------------------------------
(* Properties of the pipeline's stages *)

\* the order of the stages of main; a failure ends the run
StageRank(pc) ==
    CASE pc = "init" -> 0
      [] pc = "start" -> 1
      [] pc = "walked" -> 2
      [] pc = "typeset" -> 3
      [] pc = "resolve" -> 4
      [] pc = "returned" -> 5
      [] pc = "written" -> 6
      [] pc = "failed" -> 7

\* what one step of the pipeline may do, given the stage it starts in
StagedStep ==
    /\ rpc # "failed"
    /\ rpc' # rpc => StageRank(rpc') > StageRank(rpc)
    \* the renderer hands over pages only after the typesetting succeeded
    /\ (numPages' # numPages \/ bboxes' # bboxes) => (rpc = "typeset" /\ rpc' = "resolve")
    /\ rpc' = "resolve" => rpc \in {"typeset", "resolve"}
    \* regions are resolved only once the pages are rendered and parsed
    /\ (seen_boxes' # seen_boxes \/ folds' # folds \/ (cur' # cur /\ rpc = rpc')) =>
          (rpc = "resolve" /\ numPages \in Pages /\ Len(bboxes) = numPages)
    \* a page is optimized only after every fragment is resolved
    /\ optimized' # optimized =>
          /\ rpc = "resolve"
          /\ cur > Len(fragments)
          /\ optimized' = optimized + 1
          /\ optimized' <= numPages
    \* encoding only after the optimization of every page
    /\ (rpc = "resolve" /\ rpc' = "returned") =>
          /\ cur > Len(fragments)
          /\ optEnabled => optimized = numPages
    \* the tree is written only after the render returned Ok
    /\ stdout' # stdout => rpc = "returned"

\* C28: the pipeline is strictly staged: the renderer runs only after the
\* typesetting succeeded, regions are resolved only after rendering and page
\* parsing succeeded, pages are optimized only after every fragment is resolved,
\* encoding only after optimization; after a failure in any stage no later
\* stage runs and nothing is retried.
C28_StrictlyStaged ==
    /\ [][StagedStep]_vars
    /\ [](rpc = "failed" => [](rpc = "failed" /\ stdout = <<>>))

\* a run through every stage: two fragments resolved, two pages optimized
C28_Witness ==
    /\ rpc = "written"
    /\ Len(fragments) = 2
    /\ optEnabled
    /\ numPages = 2
    /\ optimized = 2
    /\ folds # <<>>

----------------------------------------------------------------------------
(* Properties of the fragments *)

\* the nodes fragment k owns
OwnedBy(k) == {fragments[k].refs[r].node : r \in 1..Len(fragments[k].refs)}

\* the fragments are those of the document: every node owned once, inline math
\* of one trimmed source in one fragment, every other fragment owning one node,
\* in the order of first occurrence
FragmentsMerged ==
    /\ \A i \in 1..Len(doc) : \E k \in 1..Len(fragments) :
          /\ i \in OwnedBy(k)
          /\ fragments[k].ty = FragmentTypeOf(doc[i])
          /\ fragments[k].src = Trim(doc[i].text)
          /\ \A m \in 1..Len(fragments) : i \in OwnedBy(m) => m = k
    /\ \A k \in 1..Len(fragments) :
          /\ OwnedBy(k) # {}
          /\ OwnedBy(k) \subseteq 1..Len(doc)
          /\ Cardinality(OwnedBy(k)) = Len(fragments[k].refs)
          /\ fragments[k].ty # "InlineMath" => Len(fragments[k].refs) = 1
          /\ \A r \in 1..(Len(fragments[k].refs) - 1) :
                fragments[k].refs[r].node < fragments[k].refs[r + 1].node
    /\ \A k, m \in 1..Len(fragments) :
          /\ (k # m /\ fragments[k].ty = "InlineMath" /\ fragments[m].ty = "InlineMath")
                => fragments[k].src # fragments[m].src
          /\ k < m => fragments[k].refs[1].node < fragments[m].refs[1].node

\* C29: add_fragment merges the InlineMath occurrences of one trimmed source
\* into a single fragment owning every such node, and after a successful render
\* all the nodes a fragment owns carry identical markup; DisplayMath, RawBlock
\* and DontShow occurrences are never merged; fragments keep the order of first
\* occurrence.
C29_InlineMathMerged ==
    /\ rpc \in {"walked", "typeset", "resolve", "returned", "written"} => FragmentsMerged
    /\ rpc \in {"returned", "written"} =>
          \A k \in 1..Len(fragments) : \A i, j \in OwnedBy(k) : nodes[i] = nodes[j]

\* "x" and " x" as inline math: one fragment owning both nodes, rendered
C29_Witness ==
    /\ rpc = "written"
    /\ Len(doc) = 2
    /\ doc[1].text # doc[2].text
    /\ Len(fragments) = 1
    /\ fragments[1].ty = "InlineMath"
    /\ OwnedBy(1) = {1, 2}
    /\ nodes[1].html.imgs # <<>>
    /\ nodes[1] = nodes[2]

\* fragment k is a DontShow fragment
IsDontShow(k) == k \in 1..Len(fragments) /\ fragments[k].ty = "DontShow"

\* a DontShow fragment has the line range of its source; no box was folded for
\* it; the render never fails at it; once passed, its nodes are empty markup
DontShowInert ==
    /\ \A k \in 1..Len(lines) :
          IsDontShow(k) =>
              /\ lines[k].hi - lines[k].lo = LinesCount(fragments[k].src)
              /\ lines[k].hi > lines[k].lo
              /\ k < Len(lines) => lines[k + 1].lo = lines[k].hi + 1
    /\ \A i \in 1..Len(folds) : ~IsDontShow(folds[i].frag)
    /\ rpc = "failed" => ~IsDontShow(cur)
    /\ \A k \in Completed :
          IsDontShow(k) =>
              \A r \in 1..Len(fragments[k].refs) :
                  nodes[fragments[k].refs[r].node]
                      = [t |-> IF fragments[k].refs[r].kind = "Inline"
                               THEN "RawInline" ELSE "RawBlock",
                         html |-> NoHtml]

\* the step of the resolve loop at a DontShow fragment: the loop moves on to
\* the next fragment, which starts with no Region, and nothing of the seen-set
\* or of what was folded changes
DontShowStep ==
    (rpc = "resolve" /\ IsDontShow(cur)) =>
        /\ rpc' = "resolve"
        /\ err' = err
        /\ cur' = cur + 1
        /\ seen_boxes' = seen_boxes
        /\ folds' = folds
        /\ regions' = NoRegions
        /\ \A i \in 1..Len(nodes) : i \notin OwnedBy(cur) => nodes'[i] = nodes[i]

\* C30: a DontShow fragment still occupies its own line range in the generated
\* document, but during resolution it never queries the scanner, never adds to
\* or reads the seen-set, never causes a position-resolution failure, and every
\* node owning it is replaced by empty markup; the seen-set and the Regions of
\* the other fragments are as if its resolution step were absent.
C30_DontShowSkipped == []DontShowInert /\ [][DontShowStep]_vars

\* a DontShow fragment passed after a fragment whose boxes are in the seen-set
C30_Witness ==
    /\ rpc = "resolve"
    /\ Len(fragments) = 2
    /\ cur = 3
    /\ IsDontShow(2)
    /\ seen_boxes # {}
    /\ nodes[fragments[2].refs[1].node].html = NoHtml
    /\ nodes[fragments[1].refs[1].node].html # NoHtml

====
